---- MODULE Spec2Model ----
(***************************************************************************)
(* A model of the uspto_odp client library: the error classifier           *)
(* (USPTOError.from_dict, USPTOClient._handle_response), the response      *)
(* mappers of the models package, and the document download path.          *)
(*                                                                         *)
(* JSON values are modelled structurally.  A JSON object is a function     *)
(* from its keys (strings) to values, an array is a sequence, and a scalar *)
(* is a tagged record: JStr(s), JInt(n) or None (JSON null).  Text that    *)
(* the code inspects character by character (dates, timestamps, the third  *)
(* address line) is a sequence of one-character strings; all other text is *)
(* an atomic string.  A Python call that may raise evaluates to Ok(v) or   *)
(* Raise(exception type).  Python evaluates an argument once and binds its *)
(* value to a name: x = v; e(x) is written                                 *)
(*     CHOOSE out \in { e(x) : x \in {v} } : TRUE                          *)
(***************************************************************************)
EXTENDS Integers, Sequences, FiniteSets, TLC

VARIABLES
    impl,           \* which of the two parallel client implementations runs
    pc,             \* position of the current invocation
    op,             \* the public operation being invoked
    resp,           \* the HTTP response the session returned
    outcome,        \* what the invocation surfaced to its caller
    mapperApplied,  \* whether parse_func was called in this invocation
    logged,         \* the errors passed to logger.error in this invocation
    requests,       \* HTTP requests issued by this invocation
    decodes,        \* calls of response.json() in this invocation
    arguments,      \* the arguments of a download_document invocation
    stream,         \* bytes of the response body not yet read
    file,           \* the file at full_path as this invocation leaves it
    connection,     \* the "async with session.get(...)" scope
    payloads,       \* the JSON payloads this invocation sent by POST
    chunks,         \* the lengths of the chunks response.content.read returned
    tasks,          \* the local variables of each of the concurrent invocations
    client,         \* the attributes of the client object the invocations share
    lastArrival     \* the invocation whose response arrived most recently

vars == <<impl, pc, op, resp, outcome, mapperApplied, logged, requests, decodes,
          arguments, stream, file, connection, payloads, chunks, tasks, client,
          lastArrival>>

(***************************************************************************)
(* Bounds of the model.                                                    *)
(***************************************************************************)
\* longest patentFileWrapperDataBag / documentBag the server sends
MaxItems == 2

\* longest download body, in full chunks
MaxChunks == 2

(***************************************************************************)
(* JSON and Python values.                                                 *)
(***************************************************************************)
None == [t |-> "null"]
JStr(s) == [t |-> "str", s |-> s]
JInt(n) == [t |-> "int", n |-> n]

Ok(v) == [ok |-> TRUE, v |-> v]
Raise(e) == [ok |-> FALSE, exc |-> e]

\* the empty dict {}
EmptyMap == [k \in {} |-> None]

\* dict.get(k, default)
Get(d, k, default) == IF k \in DOMAIN d THEN d[k] ELSE default

\* the dict d without the keys outside S
Restrict(d, S) == [k \in (DOMAIN d) \cap S |-> d[k]]

\* Python truthiness of a JSON scalar (None, "" and 0 are falsy)
Truthy(v) ==
    CASE v.t = "null" -> FALSE
      [] v.t = "str" -> v.s # ""
      [] v.t = "int" -> v.n # 0

\* truthiness of text held as a sequence of characters
TruthyText(v) == v.t = "str" /\ Len(v.s) > 0

\* a variant of "a or b" that falls through on None only (a null-coalescing
\* read of the two spellings)
PyOr_on_None_only(a, b) == IF a = None THEN b ELSE a

\* a or b
PyOr(a, b) == IF Truthy(a) THEN a ELSE b

\* a variant that builds a list of two back to front
Collect_swapped(rs) ==
    IF rs = <<>> THEN Ok(<<>>)
    ELSE IF \E i \in 1..Len(rs) : ~rs[i].ok
         THEN LET first == CHOOSE i \in 1..Len(rs) :
                               /\ ~rs[i].ok
                               /\ \A j \in 1..(i - 1) : rs[j].ok
              IN Raise(rs[first].exc)
         ELSE IF Len(rs) = 2 THEN Ok(<<rs[2].v, rs[1].v>>)
         ELSE Ok([i \in 1..Len(rs) |-> rs[i].v])

\* the first exception among the results rs, else the list of their values
Collect(rs) ==
    IF rs = <<>> THEN Ok(<<>>)
    ELSE IF \E i \in 1..Len(rs) : ~rs[i].ok
         THEN LET first == CHOOSE i \in 1..Len(rs) :
                               /\ ~rs[i].ok
                               /\ \A j \in 1..(i - 1) : rs[j].ok
              IN Raise(rs[first].exc)
         ELSE Ok([i \in 1..Len(rs) |-> rs[i].v])

\* [f(x) for x in xs], given results = f of each x in order: the first
\* exception raised ends the comprehension (results is evaluated once)
Comprehension(results) == CHOOSE out \in { Collect(rs) : rs \in {results} } : TRUE

(***************************************************************************)
(* Calendar dates: datetime.date.fromisoformat over YYYY-MM-DD.            *)
(***************************************************************************)
DigitChars == <<"0", "1", "2", "3", "4", "5", "6", "7", "8", "9">>

IsDigit(c) == \E i \in 1..Len(DigitChars) : DigitChars[i] = c

DigitVal(c) == (CHOOSE i \in 1..Len(DigitChars) : DigitChars[i] = c) - 1

Chr(n) == DigitChars[n + 1]

\* the text "YYYY-MM-DD" of three numbers (no validation: 2024-13-45 is a text)
IsoText(y, m, d) ==
    << Chr(y \div 1000), Chr((y \div 100) % 10), Chr((y \div 10) % 10), Chr(y % 10),
       "-", Chr((m \div 10) % 10), Chr(m % 10),
       "-", Chr((d \div 10) % 10), Chr(d % 10) >>

IsLeap(y) == (y % 4 = 0) /\ ((y % 100 # 0) \/ (y % 400 = 0))

DaysInMonth(y, m) ==
    CASE m \in {1, 3, 5, 7, 8, 10, 12} -> 31
      [] m \in {4, 6, 9, 11} -> 30
      [] m = 2 -> IF IsLeap(y) THEN 29 ELSE 28

\* datetime.date(y, m, d)
MkDate(y, m, d) == [year |-> y, month |-> m, day |-> d]

\* _parse_isoformat_date followed by the date constructor's range checks
CheckDate(y, m, d) ==
    IF y < 1 \/ m < 1 \/ m > 12 THEN Raise("ValueError")
    ELSE IF d < 1 \/ d > DaysInMonth(y, m) THEN Raise("ValueError")
    ELSE Ok(MkDate(y, m, d))

ParseIsoDate(text) ==
    CHOOSE out \in {
        IF Len(cs) # 10 THEN Raise("ValueError")
        ELSE IF cs[5] # "-" \/ cs[8] # "-" THEN Raise("ValueError")
        ELSE IF \E i \in {1, 2, 3, 4, 6, 7, 9, 10} : ~IsDigit(cs[i]) THEN Raise("ValueError")
        ELSE CHOOSE r \in {
                 CheckDate(y, m, d) :
                     y \in { 1000 * DigitVal(cs[1]) + 100 * DigitVal(cs[2])
                             + 10 * DigitVal(cs[3]) + DigitVal(cs[4]) },
                     m \in { 10 * DigitVal(cs[6]) + DigitVal(cs[7]) },
                     d \in { 10 * DigitVal(cs[9]) + DigitVal(cs[10]) } } : TRUE
        : cs \in {text} } : TRUE

\* date.fromisoformat(v): a non-str argument is a TypeError
date_fromisoformat(value) ==
    CHOOSE out \in { IF v.t # "str" THEN Raise("TypeError") ELSE ParseIsoDate(v.s)
                     : v \in {value} } : TRUE

\* the literal '1900-01-01' the mappers pass as the default of a date key
SentinelText == JStr(IsoText(1900, 1, 1))

SentinelDate == MkDate(1900, 1, 1)

(***************************************************************************)
(* The error classifier: USPTOError.from_dict.                             *)
(***************************************************************************)
\* a variant of the table without the 403 entry
default_messages_without_403(status_code) ==
    CASE status_code = 400 -> "Bad Request"
      [] status_code = 404 -> "Not Found"
      [] status_code = 500 -> "Internal Server Error"
      [] OTHER -> "Unknown Error"

\* default_messages.get(status_code, "Unknown Error")
default_messages(status_code) ==
    CASE status_code = 400 -> "Bad Request"
      [] status_code = 403 -> "Forbidden"
      [] status_code = 404 -> "Not Found"
      [] status_code = 500 -> "Internal Server Error"
      [] OTHER -> "Unknown Error"

USPTOError_from_dict(data, status_code) ==
    [ code |-> Get(data, "code", JInt(status_code)),
      error |-> Get(data, "error", JStr(default_messages(status_code))),
      error_details |-> PyOr(Get(data, "errorDetails", None),
                             Get(data, "errorDetailed", None)),
      request_identifier |-> Get(data, "requestIdentifier", None) ]

(***************************************************************************)
(* models/patent_transactions.py                                           *)
(***************************************************************************)
TransactionEvent_from_dict(data) ==
    CHOOSE out \in {
        IF ~d.ok THEN Raise(d.exc)
        ELSE Ok([ event_code |-> Get(data, "eventCode", JStr("")),
                  event_description |-> Get(data, "eventDescriptionText", JStr("")),
                  event_date |-> d.v ])
        : d \in { date_fromisoformat(Get(data, "eventDate", SentinelText)) } } : TRUE

ApplicationTransactions_from_dict(data) ==
    CHOOSE out \in {
        IF ~evs.ok THEN Raise(evs.exc)
        ELSE Ok([ application_number |-> Get(data, "applicationNumberText", JStr("")),
                  events |-> evs.v ])
        : evs \in { Comprehension([i \in 1..Len(Get(data, "eventDataBag", <<>>)) |->
                       TransactionEvent_from_dict(Get(data, "eventDataBag", <<>>)[i])]) } } : TRUE

TransactionCollection_from_dict(data) ==
    CHOOSE out \in {
        IF ~apps.ok THEN Raise(apps.exc)
        ELSE Ok([ count |-> Get(data, "count", JInt(0)),
                  transactions |-> apps.v,
                  request_identifier |-> Get(data, "requestIdentifier", None) ])
        : apps \in { Comprehension([i \in 1..Len(Get(data, "patentFileWrapperDataBag", <<>>)) |->
                        ApplicationTransactions_from_dict(
                            Get(data, "patentFileWrapperDataBag", <<>>)[i])]) } } : TRUE

(***************************************************************************)
(* models/foreign_priority.py                                              *)
(***************************************************************************)
ForeignPriority_from_dict(data) ==
    CHOOSE out \in {
        IF ~d.ok THEN Raise(d.exc)
        ELSE Ok([ office_name |-> Get(data, "ipOfficeName", JStr("")),
                  filing_date |-> d.v,
                  application_number |-> Get(data, "applicationNumberText", JStr("")) ])
        : d \in { date_fromisoformat(Get(data, "filingDate", SentinelText)) } } : TRUE

ForeignPriorityData_from_dict(data) ==
    CHOOSE out \in {
        IF ~fps.ok THEN Raise(fps.exc)
        ELSE Ok([ application_number |-> Get(data, "applicationNumberText", JStr("")),
                  foreign_priorities |-> fps.v ])
        : fps \in { Comprehension([i \in 1..Len(Get(data, "foreignPriorityBag", <<>>)) |->
                       ForeignPriority_from_dict(Get(data, "foreignPriorityBag", <<>>)[i])]) } } : TRUE

\* the record has no request_identifier field
ForeignPriorityCollection_from_dict(data) ==
    CHOOSE out \in {
        IF ~apps.ok THEN Raise(apps.exc)
        ELSE Ok([ count |-> Get(data, "count", JInt(0)),
                  priorities |-> apps.v ])
        : apps \in { Comprehension([i \in 1..Len(Get(data, "patentFileWrapperDataBag", <<>>)) |->
                        ForeignPriorityData_from_dict(
                            Get(data, "patentFileWrapperDataBag", <<>>)[i])]) } } : TRUE

(***************************************************************************)
(* models/patent_assignment.py                                             *)
(***************************************************************************)
\* '' for text held as a sequence of characters
EmptyText == JStr(<<>>)

\* s.split(',')[0]: the characters before the first comma
SplitFirst(text) ==
    CHOOSE out \in {
        IF \E i \in 1..Len(cs) : cs[i] = ","
        THEN SubSeq(cs, 1, (CHOOSE i \in 1..Len(cs) :
                                cs[i] = "," /\ \A j \in 1..(i - 1) : cs[j] # ",") - 1)
        ELSE cs
        : cs \in {text} } : TRUE

\* int(v) of a JSON value
py_int(v) ==
    CASE v.t = "int" -> Ok(v.n)
      [] v.t = "null" -> Raise("TypeError")
      [] v.t = "str" -> Raise("ValueError")

Address_from_dict(data) ==
    [ line1 |-> Get(data, "addressLineOneText", JStr("")),
      line2 |-> Get(data, "addressLineTwoText", None),
      line3 |-> Get(data, "addressLineThreeText", None),
      city |-> Get(data, "cityName", EmptyText),
      geographic_region |-> Get(data, "geographicRegionCode", JStr("")),
      postal_code |-> Get(data, "postalCode", None) ]

Assignor_from_dict(data) ==
    CHOOSE out \in {
        IF ~d.ok THEN Raise(d.exc)
        ELSE Ok([ name |-> Get(data, "assignorName", JStr("")),
                  execution_date |-> d.v ])
        : d \in { date_fromisoformat(Get(data, "executionDate", SentinelText)) } } : TRUE

Assignee_from_dict(data) ==
    CHOOSE out \in {
        Ok([ name |-> Get(data, "assigneeNameText", JStr("")), address |-> address ])
        : address \in { Address_from_dict(Get(data, "assigneeAddress", EmptyMap)) } } : TRUE

\* the address_data dict the correspondent's address is mapped from
Correspondent_address_data(data) ==
    CHOOSE out \in {
        [ addressLineOneText |-> Get(data, "addressLineOneText", JStr("")),
          addressLineTwoText |-> Get(data, "addressLineTwoText", None),
          addressLineThreeText |-> line3,
          cityName |-> IF TruthyText(line3) THEN JStr(SplitFirst(line3.s)) ELSE EmptyText,
          geographicRegionCode |-> JStr("") ]
        : line3 \in { Get(data, "addressLineThreeText", None) } } : TRUE

Correspondent_from_dict(data) ==
    CHOOSE out \in {
        Ok([ name |-> Get(data, "correspondentNameText", JStr("")),
             address |-> Address_from_dict(address_data) ])
        : address_data \in { Correspondent_address_data(data) } } : TRUE

\* the keyword arguments of Assignment(...) that can raise, in evaluation order
Assignment_arguments(data) ==
    Comprehension(<<
        date_fromisoformat(Get(data, "assignmentReceivedDate", SentinelText)),
        date_fromisoformat(Get(data, "assignmentRecordedDate", SentinelText)),
        date_fromisoformat(Get(data, "assignmentMailedDate", SentinelText)),
        py_int(Get(data, "reelNumber", JInt(0))),
        py_int(Get(data, "frameNumber", JInt(0))),
        py_int(Get(data, "pageNumber", JInt(0))),
        Comprehension([i \in 1..Len(Get(data, "assignorBag", <<>>)) |->
                           Assignor_from_dict(Get(data, "assignorBag", <<>>)[i])]),
        Comprehension([i \in 1..Len(Get(data, "assigneeBag", <<>>)) |->
                           Assignee_from_dict(Get(data, "assigneeBag", <<>>)[i])]),
        Comprehension([i \in 1..Len(Get(data, "correspondenceAddressBag", <<>>)) |->
                           Correspondent_from_dict(
                               Get(data, "correspondenceAddressBag", <<>>)[i])]) >>)

Assignment_from_dict(data) ==
    CHOOSE out \in {
        IF ~args.ok THEN Raise(args.exc)
        ELSE Ok([ received_date |-> args.v[1],
                  recorded_date |-> args.v[2],
                  mailed_date |-> args.v[3],
                  reel_number |-> args.v[4],
                  frame_number |-> args.v[5],
                  page_number |-> args.v[6],
                  reel_frame |-> Get(data, "reelNumber/frameNumber", JStr("")),
                  conveyance_text |-> Get(data, "conveyanceText", JStr("")),
                  assignors |-> args.v[7],
                  assignees |-> args.v[8],
                  correspondents |-> args.v[9] ])
        : args \in { Assignment_arguments(data) } } : TRUE

ApplicationAssignment_from_dict(data) ==
    CHOOSE out \in {
        IF ~asg.ok THEN Raise(asg.exc)
        ELSE Ok([ application_number |-> Get(data, "applicationNumberText", JStr("")),
                  assignments |-> asg.v ])
        : asg \in { Comprehension([i \in 1..Len(Get(data, "assignmentBag", <<>>)) |->
                       Assignment_from_dict(Get(data, "assignmentBag", <<>>)[i])]) } } : TRUE

AssignmentCollection_from_dict(data) ==
    CHOOSE out \in {
        IF ~apps.ok THEN Raise(apps.exc)
        ELSE Ok([ count |-> Get(data, "count", JInt(0)),
                  assignments |-> apps.v,
                  request_identifier |-> Get(data, "requestIdentifier", None) ])
        : apps \in { Comprehension([i \in 1..Len(Get(data, "patentFileWrapperDataBag", <<>>)) |->
                        ApplicationAssignment_from_dict(
                            Get(data, "patentFileWrapperDataBag", <<>>)[i])]) } } : TRUE

(***************************************************************************)
(* Timestamps: datetime.fromisoformat(text.replace('Z', '+00:00')).        *)
(* The parser covers the forms YYYY-MM-DD, YYYY-MM-DDxHH:MM:SS and         *)
(* YYYY-MM-DDxHH:MM:SS(+|-)HH:MM; the inputs of the model stay within the  *)
(* texts on which every supported Python version agrees.                   *)
(***************************************************************************)
\* text.replace('Z', '+00:00'): every Z becomes the six characters +00:00
RECURSIVE ReplaceZ(_)
ReplaceZ(cs) ==
    IF cs = <<>> THEN <<>>
    ELSE IF Head(cs) = "Z"
         THEN <<"+", "0", "0", ":", "0", "0">> \o ReplaceZ(Tail(cs))
         ELSE <<Head(cs)>> \o ReplaceZ(Tail(cs))

\* the two digits at cs[i], cs[i + 1] as a number
TwoDigits(cs, i) == 10 * DigitVal(cs[i]) + DigitVal(cs[i + 1])

IsTwoDigits(cs, i) == IsDigit(cs[i]) /\ IsDigit(cs[i + 1])

\* the time fields, range-checked
CheckTime(h, m, sec, offset) ==
    IF h > 23 \/ m > 59 \/ sec > 59 THEN Raise("ValueError")
    ELSE Ok([hour |-> h, minute |-> m, second |-> sec, utcoffset |-> offset])

\* the UTC offset (+|-)HH:MM at ts[9..14], in minutes
ParseOffset(ts) ==
    IF ~(ts[9] \in {"+", "-"} /\ IsTwoDigits(ts, 10) /\ ts[12] = ":" /\ IsTwoDigits(ts, 13))
    THEN Raise("ValueError")
    ELSE IF TwoDigits(ts, 10) > 23 \/ TwoDigits(ts, 13) > 59 THEN Raise("ValueError")
    ELSE Ok(JInt((IF ts[9] = "-" THEN -1 ELSE 1)
                 * (60 * TwoDigits(ts, 10) + TwoDigits(ts, 13))))

\* _parse_isoformat_time over the forms above, after the date and separator
ParseIsoTime(text) ==
    CHOOSE out \in {
        IF Len(ts) \notin {8, 14} THEN Raise("ValueError")
        ELSE IF ~(IsTwoDigits(ts, 1) /\ ts[3] = ":" /\ IsTwoDigits(ts, 4)
                  /\ ts[6] = ":" /\ IsTwoDigits(ts, 7)) THEN Raise("ValueError")
        ELSE IF Len(ts) = 8
             THEN CheckTime(TwoDigits(ts, 1), TwoDigits(ts, 4), TwoDigits(ts, 7), None)
        ELSE CHOOSE r \in {
                 IF ~off.ok THEN off
                 ELSE CheckTime(TwoDigits(ts, 1), TwoDigits(ts, 4), TwoDigits(ts, 7), off.v)
                 : off \in { ParseOffset(ts) } } : TRUE
        : ts \in {text} } : TRUE

\* datetime.fromisoformat(text): date_string[0:10] is the date, [11:] the time
datetime_fromisoformat(text) ==
    CHOOSE out \in {
        CHOOSE r \in {
            IF ~d.ok THEN Raise("ValueError")
            ELSE IF ~t.ok THEN Raise("ValueError")
            ELSE Ok([date |-> d.v, hour |-> t.v.hour, minute |-> t.v.minute,
                     second |-> t.v.second, utcoffset |-> t.v.utcoffset])
            : d \in { ParseIsoDate(SubSeq(cs, 1, IF Len(cs) < 10 THEN Len(cs) ELSE 10)) },
              t \in { IF Len(cs) < 12 THEN CheckTime(0, 0, 0, None)
                      ELSE ParseIsoTime(SubSeq(cs, 12, Len(cs))) } } : TRUE
        : cs \in {text} } : TRUE

(***************************************************************************)
(* models/patent_documents.py                                              *)
(***************************************************************************)
\* data[k]: a missing key is a KeyError
Index(data, k) == IF k \in DOMAIN data THEN Ok(data[k]) ELSE Raise("KeyError")

DownloadOption_from_dict(data) ==
    CHOOSE out \in {
        IF ~args.ok THEN Raise(args.exc)
        ELSE Ok([ mime_type |-> args.v[1],
                  download_url |-> args.v[2],
                  page_count |-> Get(data, "pageTotalQuantity", None) ])
        : args \in { Comprehension(<< Index(data, "mimeTypeIdentifier"),
                                      Index(data, "downloadUrl") >>) } } : TRUE

\* data['officialDate'].replace('Z', '+00:00') then datetime.fromisoformat
official_date(data) ==
    CHOOSE out \in {
        IF ~raw.ok THEN raw
        ELSE IF raw.v.t # "str" THEN Raise("AttributeError")
        ELSE datetime_fromisoformat(ReplaceZ(raw.v.s))
        : raw \in { Index(data, "officialDate") } } : TRUE

\* the keyword arguments of PatentDocument(...), in evaluation order
PatentDocument_arguments(data) ==
    Comprehension(<<
        Index(data, "applicationNumberText"),
        official_date(data),
        Index(data, "documentIdentifier"),
        Index(data, "documentCode"),
        Index(data, "documentCodeDescriptionText"),
        Index(data, "directionCategory"),
        Comprehension([i \in 1..Len(Get(data, "downloadOptionBag", <<>>)) |->
                           DownloadOption_from_dict(Get(data, "downloadOptionBag", <<>>)[i])]) >>)

PatentDocument_from_dict(data) ==
    CHOOSE out \in {
        IF ~args.ok THEN Raise(args.exc)
        ELSE Ok([ application_number |-> args.v[1],
                  official_date |-> args.v[2],
                  document_identifier |-> args.v[3],
                  document_code |-> args.v[4],
                  document_description |-> args.v[5],
                  direction_category |-> args.v[6],
                  download_options |-> args.v[7] ])
        : args \in { PatentDocument_arguments(data) } } : TRUE

\* the record has neither a count nor a request_identifier field
PatentDocumentCollection_from_dict(data) ==
    CHOOSE out \in {
        IF ~docs.ok THEN Raise(docs.exc)
        ELSE Ok([ documents |-> docs.v ])
        : docs \in { Comprehension([i \in 1..Len(Get(data, "documentBag", <<>>)) |->
                        PatentDocument_from_dict(Get(data, "documentBag", <<>>)[i])]) } } : TRUE

(***************************************************************************)
(* The application wrapper and continuity mappers (patent_file_wrapper.py, *)
(* patent_continuity.py).                                                  *)
(***************************************************************************)
\* a date field: the sentinel when the key is missing or its value malformed
date_or_sentinel(data, k) ==
    LET d == date_fromisoformat(Get(data, k, SentinelText))
    IN IF d.ok THEN d.v ELSE SentinelDate

WrapperEvent_from_dict(data) ==
    [ event_code |-> Get(data, "eventCode", JStr("")),
      event_description |-> Get(data, "eventDescriptionText", JStr("")),
      event_date |-> date_or_sentinel(data, "eventDate") ]

ApplicationMetadata_from_dict(data) ==
    [ first_inventor_name |-> Get(data, "firstInventorName", JStr("")),
      invention_title |-> Get(data, "inventionTitle", JStr("")),
      filing_date |-> date_or_sentinel(data, "filingDate"),
      status_code |-> Get(data, "applicationStatusCode", JInt(0)),
      status_description |-> Get(data, "applicationStatusDescriptionText", JStr("")),
      examiner_name |-> Get(data, "examinerNameText", JStr("")),
      docket_number |-> Get(data, "docketNumber", JStr("")) ]

PatentFileWrapper_from_dict(data) ==
    LET bag == Get(data, "eventDataBag", <<>>)
    IN [ application_number |-> Get(data, "applicationNumberText", JStr("")),
         metadata |-> ApplicationMetadata_from_dict(Get(data, "applicationMetaData", EmptyMap)),
         events |-> [i \in 1..Len(bag) |-> WrapperEvent_from_dict(bag[i])] ]

\* the wrapper of the first application tree of the body
PatentFileWrapper_parse_response(data) ==
    LET bag == Get(data, "patentFileWrapperDataBag", <<>>)
    IN Ok(PatentFileWrapper_from_dict(IF bag = <<>> THEN EmptyMap ELSE bag[1]))

ParentContinuity_from_dict(data) ==
    [ relationship_type |-> Get(data, "claimParentageTypeCode", JStr("")),
      parent_application_number |-> Get(data, "parentApplicationNumberText", JStr("")),
      child_application_number |-> Get(data, "childApplicationNumberText", JStr("")) ]

ChildContinuity_from_dict(data) ==
    [ relationship_type |-> Get(data, "claimParentageTypeCode", JStr("")),
      child_application_number |-> Get(data, "childApplicationNumberText", JStr("")),
      parent_application_number |-> Get(data, "parentApplicationNumberText", JStr("")) ]

Continuity_from_dict(data) ==
    LET parents == Get(data, "parentContinuityBag", <<>>)
        children == Get(data, "childContinuityBag", <<>>)
    IN [ application_number |-> Get(data, "applicationNumberText", JStr("")),
         parents |-> [i \in 1..Len(parents) |-> ParentContinuity_from_dict(parents[i])],
         children |-> [i \in 1..Len(children) |-> ChildContinuity_from_dict(children[i])] ]

ContinuityCollection_from_dict(data) ==
    LET bag == Get(data, "patentFileWrapperDataBag", <<>>)
    IN Ok([ count |-> Get(data, "count", JInt(0)),
            continuities |-> [i \in 1..Len(bag) |-> Continuity_from_dict(bag[i])],
            request_identifier |-> Get(data, "requestIdentifier", None) ])

(***************************************************************************)
(* The client: USPTOClient._handle_response and the get_* operations.      *)
(***************************************************************************)
\* the two parallel implementations: src/uspto_odp/controller raises the
\* error, controller/ returns it
Impls == {"package", "flat"}

JsonOps == { "get_patent_wrapper", "get_patent_documents", "get_patent_continuity",
             "get_foreign_priority", "get_patent_transactions", "get_patent_assignments" }

\* a variant of the dispatch that hands get_patent_wrapper the mapper of
\* the transactions collection (the same bag key, another record)
parse_func_wrong_mapper(o, data) ==
    CASE o = "get_patent_wrapper" -> TransactionCollection_from_dict(data)
      [] o = "get_patent_documents" -> PatentDocumentCollection_from_dict(data)
      [] o = "get_patent_continuity" -> ContinuityCollection_from_dict(data)
      [] o = "get_foreign_priority" -> ForeignPriorityCollection_from_dict(data)
      [] o = "get_patent_transactions" -> TransactionCollection_from_dict(data)
      [] o = "get_patent_assignments" -> AssignmentCollection_from_dict(data)

\* the parse_func each operation hands to _handle_response
parse_func(o, data) ==
    CASE o = "get_patent_wrapper" -> PatentFileWrapper_parse_response(data)
      [] o = "get_patent_documents" -> PatentDocumentCollection_from_dict(data)
      [] o = "get_patent_continuity" -> ContinuityCollection_from_dict(data)
      [] o = "get_foreign_priority" -> ForeignPriorityCollection_from_dict(data)
      [] o = "get_patent_transactions" -> TransactionCollection_from_dict(data)
      [] o = "get_patent_assignments" -> AssignmentCollection_from_dict(data)

NoOutcome == [kind |-> "none", type |-> "none", value |-> None]
Returned(type, v) == [kind |-> "return", type |-> type, value |-> v]
Raised(type, v) == [kind |-> "raise", type |-> type, value |-> v]

\* try: data = await response.json()  except Exception: data = {}
decoded(response) == IF response.json = "raises" THEN EmptyMap ELSE response.body

\* a variant of the status-200 branch without the try/except around
\* response.json(): the decoding failure propagates
success_branch_without_try(o, response) ==
    IF response.json = "raises" THEN Raised("JSONDecodeError", None)
    ELSE IF response.json = "nonobject" THEN Raised("AttributeError", None)
    ELSE LET r == parse_func(o, response.body)
         IN IF r.ok THEN Returned("record", r.v) ELSE Raised(r.exc, None)

\* the status-200 branch: return parse_func(data).  A decoded body that is
\* not a mapping has no .get: the mapper raises AttributeError
success_branch(o, response) ==
    IF response.json = "nonobject"
    THEN Raised("AttributeError", None)
    ELSE LET r == parse_func(o, decoded(response))
         IN IF r.ok THEN Returned("record", r.v) ELSE Raised(r.exc, None)

\* a variant of the other branch without the try/except around
\* response.json(): the decoding failure propagates
error_branch_without_try(i, response) ==
    IF response.json = "raises" THEN Raised("JSONDecodeError", None)
    ELSE IF response.json = "nonobject" THEN Raised("AttributeError", None)
    ELSE LET error == USPTOError_from_dict(response.body, response.status)
         IN IF i = "package" THEN Raised("USPTOError", error)
            ELSE Returned("USPTOError", error)

\* the other branch: USPTOError.from_dict, the log call, then raise (package)
\* or return (flat)
error_branch(i, response) ==
    IF response.json = "nonobject" THEN Raised("AttributeError", None)
    ELSE LET error == USPTOError_from_dict(decoded(response), response.status)
         IN IF i = "package" THEN Raised("USPTOError", error)
            ELSE Returned("USPTOError", error)

\* _handle_response (package) and the inlined copy of it in each get_* (flat)
handle_response(i, o, response) ==
    IF response.status = 200
    THEN [ outcome |-> success_branch(o, response), applied |-> TRUE, log |-> <<>> ]
    ELSE LET out == error_branch(i, response)
         IN [ outcome |-> out, applied |-> FALSE,
              log |-> IF out.type = "USPTOError" THEN <<out.value>> ELSE <<>> ]

(***************************************************************************)
(* What the server may send: statuses and bodies.                          *)
(***************************************************************************)
Statuses == {200, 201, 400, 403, 404, 500, 503}

RequestId == JStr("9d955e40-8ae9-4b05-ab6f-17d02e74d943")

\* null, and texts that are no calendar date
BadDates == { None, JStr(<<>>), JStr(IsoText(2023, 2, 29)), JStr(IsoText(2024, 13, 1)),
              JStr(<<"0", "5", "/", "0", "1", "/", "2", "0", "2", "4">>) }

\* d with key k set to v
With(d, k, v) == [x \in (DOMAIN d) \cup {k} |-> IF x = k THEN v ELSE d[x]]

\* every tree obtained from d by leaving out some of its keys
Partial(d) == { Restrict(d, S) : S \in SUBSET (DOMAIN d) }

\* every tree obtained from d by leaving out one key, or all of them
Holes(d) == { Restrict(d, (DOMAIN d) \ {k}) : k \in DOMAIN d } \cup {d, EmptyMap}

\* ---- transaction events -------------------------------------------------
Event1 == [ eventCode |-> JStr("EML_NTR"),
            eventDescriptionText |-> JStr("Email Notification"),
            eventDate |-> JStr(IsoText(2024, 5, 1)) ]

Event2 == [ eventCode |-> JStr("MM327"),
            eventDescriptionText |-> JStr("Mail Miscellaneous Communication to Applicant"),
            eventDate |-> JStr(IsoText(2024, 2, 29)) ]

GoodEvents == Partial(Event1) \cup {Event2}

BadEvents == { With(Event1, "eventDate", b) : b \in BadDates }

TransactionsApp(events) ==
    [ applicationNumberText |-> JStr("12345678"), eventDataBag |-> events ]

GoodTransactionsCore ==
    { TransactionsApp(<<Event1, Event2>>), TransactionsApp(<<Event2, Event1>>), EmptyMap }

BadTransactionsCore ==
    { TransactionsApp(<<Event1, With(Event1, "eventDate", JStr(IsoText(2024, 13, 1)))>>) }

GoodTransactionsWide ==
    GoodTransactionsCore
    \cup { TransactionsApp(<<e>>) : e \in GoodEvents }
    \cup Partial(TransactionsApp(<<Event1>>))

BadTransactionsWide ==
    BadTransactionsCore \cup { TransactionsApp(<<e>>) : e \in BadEvents }

\* ---- foreign priority ---------------------------------------------------
Priority1 == [ ipOfficeName |-> JStr("JAPAN"),
               filingDate |-> JStr(IsoText(2024, 5, 1)),
               applicationNumberText |-> JStr("2007-123456") ]

Priority2 == [ ipOfficeName |-> JStr("GERMANY"),
               filingDate |-> JStr(IsoText(2024, 2, 29)),
               applicationNumberText |-> JStr("102007") ]

PriorityApp(fps) ==
    [ applicationNumberText |-> JStr("12345678"), foreignPriorityBag |-> fps ]

GoodPriorityCore ==
    { PriorityApp(<<Priority1, Priority2>>), PriorityApp(<<Priority2>>), EmptyMap }

BadPriorityCore == { PriorityApp(<<Priority1, With(Priority2, "filingDate", None)>>) }

GoodPriorityWide ==
    GoodPriorityCore
    \cup { PriorityApp(<<p>>) : p \in Partial(Priority1) }
    \cup Partial(PriorityApp(<<Priority1>>))

BadPriorityWide ==
    BadPriorityCore \cup { PriorityApp(<<With(Priority1, "filingDate", b)>>) : b \in BadDates }

\* ---- assignments --------------------------------------------------------
AddressTree == [ addressLineOneText |-> JStr("1 MAIN ST"),
                 addressLineTwoText |-> JStr("SUITE 2"),
                 addressLineThreeText |-> JStr(<<"3", "F">>),
                 cityName |-> JStr(<<"N", "Y">>),
                 geographicRegionCode |-> JStr("NY"),
                 postalCode |-> JStr("10001") ]

AssignorTree == [ assignorName |-> JStr("TIEN, KAI-YUAN"),
                  executionDate |-> JStr(IsoText(2024, 5, 1)) ]

AssigneeTree == [ assigneeNameText |-> JStr("ACME CORP"), assigneeAddress |-> AddressTree ]

CorrespondentTree ==
    [ correspondentNameText |-> JStr("LAW FIRM LLP"),
      addressLineOneText |-> JStr("2 HIGH ST"),
      addressLineTwoText |-> JStr("FLOOR 9"),
      addressLineThreeText |-> JStr(<<"S", "F", ",", " ", "C", "A">>) ]

AssignmentTree ==
    [ assignmentReceivedDate |-> JStr(IsoText(2024, 5, 1)),
      assignmentRecordedDate |-> JStr(IsoText(2024, 2, 29)),
      assignmentMailedDate |-> JStr(IsoText(2024, 5, 1)),
      reelNumber |-> JInt(66001),
      frameNumber |-> JInt(123),
      pageNumber |-> JInt(4),
      conveyanceText |-> JStr("ASSIGNMENT OF ASSIGNORS INTEREST"),
      assignorBag |-> <<AssignorTree>>,
      assigneeBag |-> <<AssigneeTree>>,
      correspondenceAddressBag |-> <<CorrespondentTree>> ]

AssignmentsApp(asg) ==
    [ applicationNumberText |-> JStr("12345678"), assignmentBag |-> asg ]

AssignorTree2 == [ assignorName |-> JStr("LEE, ANN"),
                   executionDate |-> JStr(IsoText(2024, 2, 29)) ]

AssigneeTree2 == [ assigneeNameText |-> JStr("BETA LLC") ]

GoodAssignments ==
    Holes(AssignmentTree)
    \cup { With(With(AssignmentTree, "assignorBag", <<AssignorTree2, AssignorTree>>),
                "assigneeBag", <<AssigneeTree, AssigneeTree2>>) }
    \cup { With(AssignmentTree, "assignorBag", <<a>>) : a \in Partial(AssignorTree) }
    \cup { With(AssignmentTree, "assigneeBag", <<a>>) : a \in Holes(AssigneeTree) }
    \cup { With(AssignmentTree, "assigneeBag", <<With(AssigneeTree, "assigneeAddress", a)>>) :
               a \in Holes(AddressTree) }
    \cup { With(AssignmentTree, "correspondenceAddressBag", <<c>>) :
               c \in Holes(CorrespondentTree) }

AssignmentDateKeys ==
    {"assignmentReceivedDate", "assignmentRecordedDate", "assignmentMailedDate"}

BadAssignments ==
    { With(AssignmentTree, k, b) : k \in AssignmentDateKeys, b \in BadDates }
    \cup { With(AssignmentTree, "assignorBag", <<With(AssignorTree, "executionDate", b)>>) :
               b \in BadDates }
    \cup { With(AssignmentTree, "reelNumber", None) }

GoodAssignmentsCore ==
    { AssignmentsApp(<<AssignmentTree>>), AssignmentsApp(<<AssignmentTree, EmptyMap>>), EmptyMap }

BadAssignmentsCore ==
    { AssignmentsApp(<<AssignmentTree,
                       With(AssignmentTree, "assignmentMailedDate", JStr(IsoText(2023, 2, 29)))>>) }

GoodAssignmentsWide ==
    GoodAssignmentsCore
    \cup { AssignmentsApp(<<a>>) : a \in GoodAssignments }
    \cup Partial(AssignmentsApp(<<AssignmentTree>>))

BadAssignmentsWide ==
    BadAssignmentsCore \cup { AssignmentsApp(<<a>>) : a \in BadAssignments }

\* ---- documents ----------------------------------------------------------
\* "YYYY-MM-DDTHH:MM:SS" followed by a zone suffix
Stamp(y, m, d, zone) ==
    IsoText(y, m, d) \o <<"T", "0", "0", ":", "0", "0", ":", "0", "0">> \o zone

Zulu == <<"Z">>

OptionPdf == [ mimeTypeIdentifier |-> JStr("PDF"),
               downloadUrl |-> JStr("https://beta-api.uspto.gov/download/1.pdf"),
               pageTotalQuantity |-> JInt(12) ]

OptionXml == [ mimeTypeIdentifier |-> JStr("XML"),
               downloadUrl |-> JStr("https://beta-api.uspto.gov/download/1.xml") ]

DocumentTree ==
    [ applicationNumberText |-> JStr("12345678"),
      officialDate |-> JStr(Stamp(2021, 1, 1, Zulu)),
      documentIdentifier |-> JStr("LDXBTPQ7XBLUEX3"),
      documentCode |-> JStr("CTNF"),
      documentCodeDescriptionText |-> JStr("Non-Final Rejection"),
      directionCategory |-> JStr("OUTGOING"),
      downloadOptionBag |-> <<OptionPdf, OptionXml>> ]

DocumentTree2 ==
    [ applicationNumberText |-> JStr("12345678"),
      officialDate |-> JStr(Stamp(2024, 2, 29, <<"+", "0", "0", ":", "0", "0">>)),
      documentIdentifier |-> JStr("KQ2AB1C9PXXIFW4"),
      documentCode |-> JStr("NOA"),
      documentCodeDescriptionText |-> JStr("Notice of Allowance"),
      directionCategory |-> JStr("OUTGOING"),
      downloadOptionBag |-> <<OptionXml>> ]

DocumentRequiredKeys ==
    { "applicationNumberText", "officialDate", "documentIdentifier", "documentCode",
      "documentCodeDescriptionText", "directionCategory" }

BadStamps == { None, JStr(<<>>), JStr(Stamp(2023, 2, 29, Zulu)),
               JStr(IsoText(2021, 1, 1) \o <<"T", "2", "5", ":", "0", "0", ":", "0", "0">>) }

GoodDocumentsCore == { DocumentTree, DocumentTree2 }

BadDocumentsCore == { EmptyMap, Restrict(DocumentTree, (DOMAIN DocumentTree) \ {"documentCode"}) }

GoodDocumentsWide ==
    GoodDocumentsCore
    \cup { Restrict(DocumentTree, DocumentRequiredKeys),
           With(DocumentTree, "downloadOptionBag", <<>>),
           With(DocumentTree, "officialDate", JStr(Stamp(2021, 1, 1, <<>>))),
           With(DocumentTree, "officialDate", JStr(IsoText(2021, 1, 1))),
           With(DocumentTree, "officialDate", JStr(Stamp(2021, 1, 1, <<"-", "0", "5", ":", "0", "0">>))) }

BadDocumentsWide ==
    BadDocumentsCore
    \cup { Restrict(DocumentTree, (DOMAIN DocumentTree) \ {k}) : k \in DocumentRequiredKeys }
    \cup { With(DocumentTree, "officialDate", b) : b \in BadStamps }
    \cup { With(DocumentTree, "downloadOptionBag", <<OptionPdf, o>>) :
               o \in Partial(OptionXml) \ {OptionXml} }

\* ---- application wrapper and continuity ---------------------------------
MetaDataTree ==
    [ firstInventorName |-> JStr("Kai-Yuan Tien"),
      inventionTitle |-> JStr("OPTICAL SYSTEM FOR BARCODE SCANNER"),
      filingDate |-> JStr(IsoText(2008, 12, 30)),
      applicationStatusCode |-> JInt(161),
      applicationStatusDescriptionText |-> JStr("Abandoned"),
      examinerNameText |-> JStr("STANFORD, CHRISTOPHER J"),
      docketNumber |-> JStr("OP-100000929") ]

WrapperTree ==
    [ applicationNumberText |-> JStr("12345678"),
      applicationMetaData |-> MetaDataTree,
      eventDataBag |-> <<Event1, Event2>> ]

WrapperCore ==
    { WrapperTree, EmptyMap, Restrict(WrapperTree, {"applicationNumberText"}) }

WrapperWide ==
    WrapperCore
    \cup Partial(WrapperTree)
    \cup { With(WrapperTree, "applicationMetaData", m) : m \in Holes(MetaDataTree) }
    \cup { With(WrapperTree, "eventDataBag", <<e>>) : e \in BadEvents }

ParentTree == [ claimParentageTypeCode |-> JStr("CON"),
                parentApplicationNumberText |-> JStr("11111111"),
                childApplicationNumberText |-> JStr("12345678") ]

ChildTree == [ claimParentageTypeCode |-> JStr("DIV"),
               childApplicationNumberText |-> JStr("13333333"),
               parentApplicationNumberText |-> JStr("12345678") ]

ContinuityTree ==
    [ applicationNumberText |-> JStr("12345678"),
      parentContinuityBag |-> <<ParentTree>>,
      childContinuityBag |-> <<ChildTree>> ]

ContinuityCore == { ContinuityTree, EmptyMap }

ContinuityWide ==
    ContinuityCore
    \cup Partial(ContinuityTree)
    \cup { With(ContinuityTree, "parentContinuityBag", <<t>>) : t \in Holes(ParentTree) }

\* ---- bodies -------------------------------------------------------------
\* the key of the bag each operation's mapper reads
BagKey(o) == IF o = "get_patent_documents" THEN "documentBag" ELSE "patentFileWrapperDataBag"

\* item trees on which the operation's mapper is defined to succeed
GoodCore(o) ==
    CASE o = "get_patent_wrapper" -> WrapperCore
      [] o = "get_patent_documents" -> GoodDocumentsCore
      [] o = "get_patent_continuity" -> ContinuityCore
      [] o = "get_foreign_priority" -> GoodPriorityCore
      [] o = "get_patent_transactions" -> GoodTransactionsCore
      [] o = "get_patent_assignments" -> GoodAssignmentsCore

GoodWide(o) ==
    CASE o = "get_patent_wrapper" -> WrapperWide
      [] o = "get_patent_documents" -> GoodDocumentsWide
      [] o = "get_patent_continuity" -> ContinuityWide
      [] o = "get_foreign_priority" -> GoodPriorityWide
      [] o = "get_patent_transactions" -> GoodTransactionsWide
      [] o = "get_patent_assignments" -> GoodAssignmentsWide

\* item trees with a required key missing or a malformed value
BadCore(o) ==
    CASE o = "get_patent_documents" -> BadDocumentsCore
      [] o = "get_foreign_priority" -> BadPriorityCore
      [] o = "get_patent_transactions" -> BadTransactionsCore
      [] o = "get_patent_assignments" -> BadAssignmentsCore
      [] OTHER -> {}

BadWide(o) ==
    CASE o = "get_patent_documents" -> BadDocumentsWide
      [] o = "get_foreign_priority" -> BadPriorityWide
      [] o = "get_patent_transactions" -> BadTransactionsWide
      [] o = "get_patent_assignments" -> BadAssignmentsWide
      [] OTHER -> {}

\* the sequences of 2..MaxItems trees of S
Longer(S) == UNION { [1..n -> S] : n \in 2..MaxItems }

\* well-formed bags: every item tree is one the mapper is defined on
GoodBags(o) == {<<>>} \cup { <<a>> : a \in GoodWide(o) } \cup Longer(GoodCore(o))

Bags(o) ==
    {<<>>} \cup { <<a>> : a \in GoodWide(o) \cup BadWide(o) }
           \cup Longer(GoodCore(o) \cup BadCore(o))

CollectionTree(o, count, bag) ==
    [ k \in {"count", BagKey(o), "requestIdentifier"} |->
        IF k = "count" THEN JInt(count)
        ELSE IF k = "requestIdentifier" THEN RequestId ELSE bag ]

\* a collection body: count agreeing with the bag or not, any keys left out
CollectionBodies(o) ==
    UNION { Partial(CollectionTree(o, Len(bag), bag))
            \cup Partial(CollectionTree(o, Len(bag) + 1, bag)) : bag \in Bags(o) }

ErrorTree(details, detailed) ==
    [ code |-> JInt(4001),
      error |-> JStr("Invalid request"),
      errorDetails |-> details,
      errorDetailed |-> detailed,
      requestIdentifier |-> RequestId ]

DetailValues == { None, JStr(""), JStr("first spelling") }

DetailedValues == { None, JStr(""), JStr("second spelling") }

\* an error body: any keys left out, the detail fields null, empty or text
ErrorBodies ==
    UNION { Partial(ErrorTree(d1, d2)) : d1 \in DetailValues, d2 \in DetailedValues }

\* the responses to an operation: any status with any body
Responses(o) ==
    { [status |-> st, json |-> "object", body |-> b] :
          st \in Statuses, b \in CollectionBodies(o) \cup ErrorBodies }
    \cup { [status |-> st, json |-> j, body |-> None] :
          st \in Statuses, j \in {"raises", "nonobject"} }


(***************************************************************************)
(* USPTOClient.download_document.                                          *)
(***************************************************************************)
\* chunk = await response.content.read(8192)
ChunkSize == 8192

BASE_URL == "https://beta-api.uspto.gov/api/v1/patent/applications"

SerialNumber == "12345678"

\* the url each get_* operation requests
url(o) ==
    CASE o = "get_patent_wrapper" -> BASE_URL \o "/" \o SerialNumber
      [] o = "get_patent_documents" -> BASE_URL \o "/" \o SerialNumber \o "/documents"
      [] o = "get_patent_continuity" -> BASE_URL \o "/" \o SerialNumber \o "/continuity"
      [] o = "get_foreign_priority" ->
             BASE_URL \o "/" \o SerialNumber \o "/foreign-priority"
      [] o = "get_patent_transactions" ->
             BASE_URL \o "/" \o SerialNumber \o "/transactions"
      [] o = "get_patent_assignments" -> BASE_URL \o "/" \o SerialNumber \o "/assignment"

OptionWord == [ mimeTypeIdentifier |-> JStr("MS_WORD"),
                downloadUrl |-> JStr("https://beta-api.uspto.gov/download/1.docx"),
                pageTotalQuantity |-> JInt(12) ]

OptionPdf2 == [ mimeTypeIdentifier |-> JStr("PDF"),
                downloadUrl |-> JStr("https://beta-api.uspto.gov/download/2.pdf") ]

OptionHtml == [ mimeTypeIdentifier |-> JStr("HTML"),
                downloadUrl |-> JStr("https://beta-api.uspto.gov/download/1.html") ]

\* the PatentDocument arguments: options PDF+XML, XML only, every type with
\* PDF listed twice, and none
Documents ==
    { PatentDocument_from_dict(tree).v :
        tree \in { DocumentTree, DocumentTree2,
                   With(DocumentTree, "downloadOptionBag",
                        <<OptionXml, OptionWord, OptionPdf, OptionPdf2, OptionHtml>>),
                   With(DocumentTree2, "downloadOptionBag", <<>>) } }

MimeTypes == {"PDF", "MS_WORD", "XML", "HTML"}

Filenames == { None, JStr(""), JStr("custom.bin") }

\* the save_path arguments: a missing directory, a directory that is not
\* writable, a writable one
SavePaths == {"/data/missing", "/data/readonly", "/data/out"}

os_path_exists(path) == path # "/data/missing"

os_access_W_OK(path) == path = "/data/out"

\* os.path.join of a directory without trailing separator and a relative name
os_path_join(path, name) == path \o "/" \o name

NoArgs == [document |-> None, save_path |-> "", filename |-> None, mime_type |-> ""]

\* next((opt for opt in document.download_options if opt.mime_type == mime_type),
\*      None)
download_option(document, mime_type) ==
    LET opts == document.download_options
        hits == { i \in 1..Len(opts) : opts[i].mime_type = JStr(mime_type) }
    IN IF hits = {} THEN None
       ELSE opts[CHOOSE i \in hits : \A j \in hits : i <= j]

\* a variant that lists the available types back to front
available_types_reversed(document) ==
    [ i \in 1..Len(document.download_options) |->
        document.download_options[Len(document.download_options) + 1 - i].mime_type.s ]

\* [opt.mime_type for opt in document.download_options]
available_types(document) ==
    [ i \in 1..Len(document.download_options) |->
        document.download_options[i].mime_type.s ]

\* a variant that gives Word documents the extension .docx
extension_docx(mime_type) ==
    IF mime_type = "PDF" THEN ".pdf"
    ELSE IF mime_type = "MS_WORD" THEN ".docx" ELSE ".xml"

extension(mime_type) ==
    IF mime_type = "PDF" THEN ".pdf"
    ELSE IF mime_type = "MS_WORD" THEN ".doc" ELSE ".xml"

\* if not filename: filename = f"{application_number}_{document_code}_
\* {document_identifier}{extension}"
target_filename(a) ==
    IF Truthy(a.filename) THEN a.filename.s
    ELSE a.document.application_number.s \o "_" \o a.document.document_code.s
         \o "_" \o a.document.document_identifier.s \o extension(a.mime_type)

full_path(a) == os_path_join(a.save_path, target_filename(a))

\* a variant without the two checks of the save path
preconditions_without_path_checks(a) ==
    IF download_option(a.document, a.mime_type) = None
    THEN [ok |-> FALSE, exc |-> "ValueError",
          detail |-> [available_types |-> available_types(a.document)]]
    ELSE [ok |-> TRUE, exc |-> "none",
          detail |-> download_option(a.document, a.mime_type).download_url]

\* a variant that looks the option up before it checks the save path
preconditions_mime_type_first(a) ==
    IF download_option(a.document, a.mime_type) = None
    THEN [ok |-> FALSE, exc |-> "ValueError",
          detail |-> [available_types |-> available_types(a.document)]]
    ELSE IF ~os_path_exists(a.save_path)
    THEN [ok |-> FALSE, exc |-> "FileNotFoundError", detail |-> JStr(a.save_path)]
    ELSE IF ~os_access_W_OK(a.save_path)
    THEN [ok |-> FALSE, exc |-> "PermissionError", detail |-> JStr(a.save_path)]
    ELSE [ok |-> TRUE, exc |-> "none",
          detail |-> download_option(a.document, a.mime_type).download_url]

\* the checks download_document makes before it issues the request
preconditions(a) ==
    IF ~os_path_exists(a.save_path)
    THEN [ok |-> FALSE, exc |-> "FileNotFoundError", detail |-> JStr(a.save_path)]
    ELSE IF ~os_access_W_OK(a.save_path)
    THEN [ok |-> FALSE, exc |-> "PermissionError", detail |-> JStr(a.save_path)]
    ELSE IF download_option(a.document, a.mime_type) = None
    THEN [ok |-> FALSE, exc |-> "ValueError",
          detail |-> [available_types |-> available_types(a.document)]]
    ELSE [ok |-> TRUE, exc |-> "none",
          detail |-> download_option(a.document, a.mime_type).download_url]

\* the body of a download response, as the segments in which it arrives
SegmentSizes == {1, ChunkSize, ChunkSize + 1}

Streams == UNION { [1..n -> SegmentSizes] : n \in 0..MaxChunks }

\* a variant that takes whatever has arrived, however long
read_unbounded(s) == IF s = <<>> THEN 0 ELSE Head(s)

\* the length of the bytes object response.content.read(ChunkSize) returns
read(s) ==
    IF s = <<>> THEN 0
    ELSE IF Head(s) <= ChunkSize THEN Head(s) ELSE ChunkSize

\* the stream after that read
after_read(s) ==
    IF s = <<>> THEN s
    ELSE IF Head(s) <= ChunkSize THEN Tail(s)
    ELSE <<Head(s) - ChunkSize>> \o Tail(s)

NoFile == [path |-> "", state |-> "untouched", writes |-> <<>>]

(***************************************************************************)
(* USPTOClient.get_app_number_from_patent_number: the lookup of an         *)
(* application number by patent number.                                    *)
(***************************************************************************)
LookupOp == "get_app_number_from_patent_number"

\* the patent number without a leading "US" marker
StripUS(cs) ==
    IF Len(cs) >= 2 /\ cs[1] = "U" /\ cs[2] = "S" THEN SubSeq(cs, 3, Len(cs)) ELSE cs

\* a variant that removes the separators and keeps the marker
sanitize_separators_only(cs) == SelectSeq(cs, LAMBDA c : c # ",")

\* the patent number without the marker and without comma separators
sanitize_patent_number(cs) == SelectSeq(StripUS(cs), LAMBDA c : c # ",")

\* {"filters": {"applicationMetaData.patentNumber": <sanitized number>}}
lookup_payload(patent_number) ==
    [ filters |-> [ k \in {"applicationMetaData.patentNumber"} |->
                        JStr(sanitize_patent_number(patent_number)) ] ]

SearchUrl == BASE_URL \o "/search"

\* the application number of the first returned record (None without one)
first_application_number(data) ==
    LET bag == Get(data, "patentFileWrapperDataBag", <<>>)
    IN IF bag = <<>> THEN None ELSE Get(bag[1], "applicationNumberText", None)

\* the patent numbers the lookup is called with
PatentNumbers ==
    { <<"U", "S", "1", "1", ",", "9", "8", "9", ",", "9", "9", "9">>,
      <<"1", "1", ",", "9", "8", "9", ",", "9", "9", "9">>,
      <<"1", "1", "9", "8", "9", "9", "9", "9">>,
      <<"U", "S", "7", ",", "1", "2", "3">>,
      <<"7", "1", "2", "3">> }

\* the application trees a search returns
LookupTree ==
    [ applicationNumberText |-> JStr("18085747"),
      applicationMetaData |-> [ patentNumber |-> JStr("11989999") ] ]

LookupBags ==
    { <<>>, <<LookupTree>>, <<LookupTree, WrapperTree>>, <<WrapperTree, LookupTree>>,
      <<EmptyMap>> }

LookupResponses ==
    { [status |-> st, json |-> "object", body |-> b] :
          st \in Statuses,
          b \in UNION { Partial(CollectionTree(LookupOp, Len(bag), bag)) :
                            bag \in LookupBags } }
    \cup { [status |-> st, json |-> j, body |-> None] :
          st \in Statuses, j \in {"raises", "nonobject"} }

(***************************************************************************)
(* The state machine: one invocation at a time, from the call to the       *)
(* outcome surfaced to the caller.                                         *)
(***************************************************************************)
NoResponse == [status |-> 0, json |-> "none", body |-> None]

(***************************************************************************)
(* Concurrent invocations on one client: what they share and what each     *)
(* keeps in local variables.                                                *)
(***************************************************************************)
\* the invocations that run concurrently on the one client
Tasks == {1, 2}

\* self.API_KEY, self.headers and self.session as __init__ leaves them
InitialClient ==
    [ API_KEY |-> "api-key",
      headers |-> [ k \in {"accept", "X-API-KEY"} |->
                      IF k = "accept" THEN "application/json" ELSE "api-key" ],
      session |-> "session" ]

\* the local variables of an invocation that has not been called
IdleTask ==
    [ pc |-> "idle", op |-> "none", arguments |-> NoArgs, resp |-> NoResponse,
      stream |-> <<>>, file |-> NoFile, outcome |-> NoOutcome ]

\* the responses served to concurrent get_* invocations: 200 with a
\* well-formed collection of at most one item, 404 with an error body, 500
\* with a body that is no JSON
ConcResponses(o) ==
    { [status |-> 200, json |-> "object", body |-> CollectionTree(o, Len(bag), bag)] :
          bag \in {<<>>} \cup { <<a>> : a \in GoodCore(o) } }
    \cup { [status |-> 404, json |-> "object",
            body |-> ErrorTree(JStr("first spelling"), None)],
           [status |-> 500, json |-> "raises", body |-> None] }

\* the arguments of concurrent download_document invocations: the PDF of
\* each document, to a writable or to a missing directory
ConcDownloads ==
    { [document |-> d, save_path |-> p, filename |-> None, mime_type |-> "PDF"] :
          d \in Documents, p \in {"/data/out", "/data/missing"} }

\* the bodies served to concurrent downloads: at most one segment
ConcStreams == { s \in Streams : Len(s) <= 1 }

\* the client after construction, no operation called yet
Init ==
    /\ impl \in Impls
    /\ pc = "idle"
    /\ op = "none"
    /\ resp = NoResponse
    /\ outcome = NoOutcome
    /\ mapperApplied = FALSE
    /\ logged = <<>>
    /\ requests = <<>>
    /\ decodes = 0
    /\ arguments = NoArgs
    /\ stream = <<>>
    /\ file = NoFile
    /\ connection = "none"
    /\ payloads = <<>>
    /\ chunks = <<>>
    /\ tasks = [t \in Tasks |-> IdleTask]
    /\ client = InitialClient
    /\ lastArrival = 0

\* a get_* operation is called: session.get(url, headers) is issued
Call(o) ==
    /\ pc = "idle"
    /\ pc' = "awaiting"
    /\ op' = o
    /\ requests' = Append(requests, url(o))
    /\ UNCHANGED <<chunks, payloads, impl, resp, outcome, mapperApplied, logged, decodes,
                   arguments, stream, file, connection>>
    /\ UNCHANGED <<tasks, client, lastArrival>>

\* the response to a get_* operation arrives
Respond ==
    /\ pc = "awaiting"
    /\ op \in JsonOps
    /\ \E r \in Responses(op) : resp' = r
    /\ pc' = "responded"
    /\ connection' = "open"
    /\ UNCHANGED <<chunks, payloads, impl, op, outcome, mapperApplied, logged, requests, decodes,
                   arguments, stream, file>>
    /\ UNCHANGED <<tasks, client, lastArrival>>

\* a variant that retries: after the transport failure the request is issued
\* once more
TransportFailure_with_retry ==
    /\ pc = "awaiting"
    /\ Len(requests) < 2
    /\ requests' = Append(requests, Head(requests))
    /\ UNCHANGED <<chunks, payloads, impl, pc, op, resp, outcome, mapperApplied, logged,
                   decodes, arguments, stream, file, connection>>
    /\ UNCHANGED <<tasks, client, lastArrival>>

\* the transport fails (connection, DNS, TLS) before a response arrives: the
\* exception propagates as is
TransportFailure ==
    /\ pc = "awaiting"
    /\ pc' = "done"
    /\ outcome' = Raised("ClientError", None)
    /\ UNCHANGED <<chunks, payloads, impl, op, resp, mapperApplied, logged, requests, decodes,
                   arguments, stream, file, connection>>
    /\ UNCHANGED <<tasks, client, lastArrival>>

\* the body of "async with session.get(...) as response" of a get_* operation
HandleResponse ==
    /\ pc = "responded"
    /\ op \in JsonOps
    /\ LET h == handle_response(impl, op, resp)
       IN /\ outcome' = h.outcome
          /\ mapperApplied' = h.applied
          /\ logged' = logged \o h.log
    /\ decodes' = decodes + 1
    /\ connection' = "released"
    /\ pc' = "done"
    /\ UNCHANGED <<chunks, payloads, impl, op, resp, requests, arguments, stream, file>>
    /\ UNCHANGED <<tasks, client, lastArrival>>

\* get_app_number_from_patent_number is called: the number is sanitized and
\* session.post(url, json=payload) is issued
CallLookup ==
    /\ pc = "idle"
    /\ pc' = "awaiting"
    /\ op' = LookupOp
    /\ \E number \in PatentNumbers :
          /\ arguments' = [patent_number |-> number]
          /\ payloads' = Append(payloads, lookup_payload(number))
    /\ requests' = Append(requests, SearchUrl)
    /\ UNCHANGED <<chunks, impl, resp, outcome, mapperApplied, logged, decodes, stream,
                   file, connection>>
    /\ UNCHANGED <<tasks, client, lastArrival>>

\* the response to the search arrives
RespondLookup ==
    /\ pc = "awaiting"
    /\ op = LookupOp
    /\ \E r \in LookupResponses : resp' = r
    /\ pc' = "responded"
    /\ connection' = "open"
    /\ UNCHANGED <<chunks, payloads, impl, op, outcome, mapperApplied, logged, requests, decodes,
                   arguments, stream, file>>
    /\ UNCHANGED <<tasks, client, lastArrival>>

\* the response to the search is handled: the application number of the first
\* record on 200, the error otherwise
HandleLookup ==
    /\ pc = "responded"
    /\ op = LookupOp
    /\ IF resp.status = 200
       THEN /\ outcome' = IF resp.json = "nonobject" THEN Raised("AttributeError", None)
                          ELSE Returned("str", first_application_number(decoded(resp)))
            /\ mapperApplied' = TRUE
            /\ UNCHANGED logged
       ELSE /\ outcome' = error_branch(impl, resp)
            /\ mapperApplied' = FALSE
            /\ logged' = IF error_branch(impl, resp).type = "USPTOError"
                         THEN Append(logged, error_branch(impl, resp).value)
                         ELSE logged
    /\ decodes' = decodes + 1
    /\ connection' = "released"
    /\ pc' = "done"
    /\ UNCHANGED <<chunks, payloads, impl, op, resp, requests, arguments, stream, file>>
    /\ UNCHANGED <<tasks, client, lastArrival>>

\* a variant that creates the destination file as soon as it is called,
\* before the checks and the request
CallDownload_creates_file_first ==
    /\ pc = "idle"
    /\ op' = "download_document"
    /\ \E d \in Documents, p \in SavePaths, f \in Filenames, m \in MimeTypes :
          LET a == [document |-> d, save_path |-> p, filename |-> f, mime_type |-> m]
              pre == preconditions(a)
          IN /\ arguments' = a
             /\ file' = [path |-> full_path(a), state |-> "closed", writes |-> <<>>]
             /\ IF pre.ok
                THEN /\ pc' = "awaiting"
                     /\ requests' = Append(requests, pre.detail.s)
                     /\ UNCHANGED outcome
                ELSE /\ pc' = "done"
                     /\ outcome' = Raised(pre.exc, pre.detail)
                     /\ UNCHANGED requests
    /\ UNCHANGED <<chunks, payloads, impl, resp, mapperApplied, logged, decodes, stream,
                   connection>>
    /\ UNCHANGED <<tasks, client, lastArrival>>

\* download_document is called: the precondition checks, the option lookup
\* and the filename run, then session.get(download_url, headers) is issued
CallDownload ==
    /\ pc = "idle"
    /\ op' = "download_document"
    /\ \E d \in Documents, p \in SavePaths, f \in Filenames, m \in MimeTypes :
          LET a == [document |-> d, save_path |-> p, filename |-> f, mime_type |-> m]
              pre == preconditions(a)
          IN /\ arguments' = a
             /\ IF pre.ok
                THEN /\ pc' = "awaiting"
                     /\ requests' = Append(requests, pre.detail.s)
                     /\ UNCHANGED outcome
                ELSE /\ pc' = "done"
                     /\ outcome' = Raised(pre.exc, pre.detail)
                     /\ UNCHANGED requests
    /\ UNCHANGED <<chunks, payloads, impl, resp, mapperApplied, logged, decodes, stream, file,
                   connection>>
    /\ UNCHANGED <<tasks, client, lastArrival>>

\* the response to the download request arrives
RespondDownload ==
    /\ pc = "awaiting"
    /\ op = "download_document"
    /\ \E st \in Statuses : resp' = [status |-> st, json |-> "none", body |-> None]
    /\ \E s \in Streams : stream' = s
    /\ pc' = "responded"
    /\ connection' = "open"
    /\ UNCHANGED <<chunks, payloads, impl, op, outcome, mapperApplied, logged, requests, decodes,
                   arguments, file>>
    /\ UNCHANGED <<tasks, client, lastArrival>>

\* a variant that opens the file whatever the status of the response
OpenFile_any_status ==
    /\ pc = "responded"
    /\ op = "download_document"
    /\ file' = [path |-> full_path(arguments), state |-> "open", writes |-> <<>>]
    /\ pc' = "reading"
    /\ UNCHANGED <<chunks, payloads, impl, op, resp, outcome, connection, mapperApplied, logged,
                   requests, decodes, arguments, stream>>
    /\ UNCHANGED <<tasks, client, lastArrival>>

\* if response.status != 200: raise Exception(...); else open(full_path, 'wb')
OpenFile ==
    /\ pc = "responded"
    /\ op = "download_document"
    /\ IF resp.status # 200
       THEN /\ outcome' = Raised("Exception", JInt(resp.status))
            /\ connection' = "released"
            /\ pc' = "done"
            /\ UNCHANGED file
       ELSE /\ file' = [path |-> full_path(arguments), state |-> "open", writes |-> <<>>]
            /\ pc' = "reading"
            /\ UNCHANGED <<outcome, connection>>
    /\ UNCHANGED <<chunks, payloads, impl, op, resp, mapperApplied, logged, requests, decodes,
                   arguments, stream>>
    /\ UNCHANGED <<tasks, client, lastArrival>>

\* one turn of the loop: read a chunk; write it, or leave the loop on an empty
\* chunk, close the file, release the response and return full_path
ReadChunk ==
    /\ pc = "reading"
    /\ chunks' = Append(chunks, read(stream))
    /\ IF read(stream) = 0
       THEN /\ file' = [file EXCEPT !.state = "closed"]
            /\ connection' = "released"
            /\ outcome' = Returned("str", JStr(full_path(arguments)))
            /\ pc' = "done"
            /\ UNCHANGED stream
       ELSE /\ file' = [file EXCEPT !.writes = Append(@, read(stream))]
            /\ stream' = after_read(stream)
            /\ UNCHANGED <<outcome, connection, pc>>
    /\ UNCHANGED <<payloads, impl, op, resp, mapperApplied, logged, requests, decodes,
                   arguments>>
    /\ UNCHANGED <<tasks, client, lastArrival>>

\* a variant of the read failure without the two with-blocks: nothing is
\* closed when the exception leaves the loop
ReadFailure_without_scopes ==
    /\ pc = "reading"
    /\ outcome' = Raised("ClientError", None)
    /\ pc' = "done"
    /\ UNCHANGED <<chunks, payloads, impl, op, resp, mapperApplied, logged, requests,
                   decodes, arguments, stream, file, connection>>
    /\ UNCHANGED <<tasks, client, lastArrival>>

\* the transport fails while the body is read: both with-blocks unwind and the
\* exception propagates as is
ReadFailure ==
    /\ pc = "reading"
    /\ file' = [file EXCEPT !.state = "closed"]
    /\ connection' = "released"
    /\ outcome' = Raised("ClientError", None)
    /\ pc' = "done"
    /\ UNCHANGED <<chunks, payloads, impl, op, resp, mapperApplied, logged, requests,
                   decodes, arguments, stream>>
    /\ UNCHANGED <<tasks, client, lastArrival>>

\* a chunk was read and f.write(chunk) fails (disk full, file system error):
\* both with-blocks unwind and the OSError propagates
WriteFailure ==
    /\ pc = "reading"
    /\ read(stream) > 0
    /\ chunks' = Append(chunks, read(stream))
    /\ stream' = after_read(stream)
    /\ file' = [file EXCEPT !.state = "closed"]
    /\ connection' = "released"
    /\ outcome' = Raised("OSError", None)
    /\ pc' = "done"
    /\ UNCHANGED <<payloads, impl, op, resp, mapperApplied, logged, requests, decodes,
                   arguments>>
    /\ UNCHANGED <<tasks, client, lastArrival>>

\* the caller has the outcome; the client is ready for the next invocation
Finish ==
    /\ pc = "done"
    /\ pc' = "idle"
    /\ op' = "none"
    /\ resp' = NoResponse
    /\ outcome' = NoOutcome
    /\ mapperApplied' = FALSE
    /\ logged' = <<>>
    /\ requests' = <<>>
    /\ decodes' = 0
    /\ arguments' = NoArgs
    /\ stream' = <<>>
    /\ file' = NoFile
    /\ connection' = "none"
    /\ payloads' = <<>>
    /\ chunks' = <<>>
    /\ UNCHANGED impl
    /\ UNCHANGED <<tasks, client, lastArrival>>

Next ==
    \/ \E o \in JsonOps : Call(o)
    \/ Respond
    \/ TransportFailure
    \/ HandleResponse
    \/ CallLookup
    \/ RespondLookup
    \/ HandleLookup
    \/ CallDownload
    \/ RespondDownload
    \/ OpenFile
    \/ ReadChunk
    \/ ReadFailure
    \/ WriteFailure
    \/ Finish

Spec == Init /\ [][Next]_vars

\* the event loop resumes the download when data, or the end of the body,
\* has arrived
FairSpec == Spec /\ WF_vars(ReadChunk)

(***************************************************************************)
(* Concurrent invocations: the event loop runs one invocation at a time    *)
(* and switches between them where they await the network.                 *)
(***************************************************************************)
\* the variables of the single invocation, which concurrent ones leave alone
single == <<impl, pc, op, resp, outcome, mapperApplied, logged, requests, decodes,
            arguments, stream, file, connection, payloads, chunks>>

\* a variant that keeps the response in one slot of the client, which the
\* response arrived last overwrites
response_shared(t) ==
    IF lastArrival = 0 THEN tasks[t].resp ELSE tasks[lastArrival].resp

\* the local variable "response" of invocation t
response(t) == tasks[t].resp

\* invocation t is called: a get_* operation issues its request; a
\* download_document checks its arguments, then issues its request or raises
ConcCall(t) ==
    /\ tasks[t].pc = "idle"
    /\ \/ \E o \in JsonOps :
             tasks' = [tasks EXCEPT ![t] = [@ EXCEPT !.pc = "awaiting", !.op = o]]
       \/ \E a \in ConcDownloads :
             tasks' = [tasks EXCEPT ![t] =
                 IF preconditions(a).ok
                 THEN [@ EXCEPT !.pc = "awaiting", !.op = "download_document",
                                !.arguments = a]
                 ELSE [@ EXCEPT !.pc = "done", !.op = "download_document",
                                !.arguments = a,
                                !.outcome = Raised(preconditions(a).exc,
                                                   preconditions(a).detail)]]
    /\ UNCHANGED <<single, client, lastArrival>>

\* the response to the request of invocation t arrives
ConcRespond(t) ==
    /\ tasks[t].pc = "awaiting"
    /\ \/ /\ tasks[t].op \in JsonOps
          /\ \E r \in ConcResponses(tasks[t].op) :
                tasks' = [tasks EXCEPT ![t] = [@ EXCEPT !.pc = "responded", !.resp = r]]
       \/ /\ tasks[t].op = "download_document"
          /\ \E st \in {200, 404}, s \in ConcStreams :
                tasks' = [tasks EXCEPT ![t] =
                    [@ EXCEPT !.pc = "responded", !.stream = s,
                              !.resp = [status |-> st, json |-> "none", body |-> None]]]
    /\ lastArrival' = t
    /\ UNCHANGED <<single, client>>

\* the transport fails under invocation t, before the response or while the
\* body is read: the with-blocks unwind and the exception propagates
ConcFailure(t) ==
    /\ tasks[t].pc \in {"awaiting", "reading"}
    /\ LET k == tasks[t]
       IN tasks' = [tasks EXCEPT ![t] =
              [k EXCEPT !.pc = "done", !.outcome = Raised("ClientError", None),
                        !.file = IF k.file.state = "open"
                                 THEN [k.file EXCEPT !.state = "closed"]
                                 ELSE k.file]]
    /\ UNCHANGED <<single, client, lastArrival>>

\* invocation t resumes with its response: a get_* operation decodes and maps
\* it; download_document raises on a status other than 200, else opens the
\* file
ConcHandle(t) ==
    /\ tasks[t].pc = "responded"
    /\ LET k == tasks[t]
       IN tasks' = [tasks EXCEPT ![t] =
              IF k.op \in JsonOps
              THEN [k EXCEPT !.pc = "done",
                             !.outcome = handle_response(impl, k.op, response(t)).outcome]
              ELSE IF response(t).status # 200
              THEN [k EXCEPT !.pc = "done",
                             !.outcome = Raised("Exception", JInt(response(t).status))]
              ELSE [k EXCEPT !.pc = "reading",
                             !.file = [path |-> full_path(k.arguments),
                                       state |-> "open", writes |-> <<>>]]]
    /\ UNCHANGED <<single, client, lastArrival>>

\* invocation t resumes in the loop: it writes the chunk read, or on the
\* empty chunk closes the file and returns full_path
ConcRead(t) ==
    /\ tasks[t].pc = "reading"
    /\ LET k == tasks[t]
       IN tasks' = [tasks EXCEPT ![t] =
              IF read(k.stream) = 0
              THEN [k EXCEPT !.pc = "done",
                             !.file = [k.file EXCEPT !.state = "closed"],
                             !.outcome = Returned("str", JStr(full_path(k.arguments)))]
              ELSE [k EXCEPT !.stream = after_read(k.stream),
                             !.file = [k.file EXCEPT
                                          !.writes = Append(@, read(k.stream))]]]
    /\ UNCHANGED <<single, client, lastArrival>>

\* the caller of invocation t has the outcome
ConcFinish(t) ==
    /\ tasks[t].pc = "done"
    /\ tasks' = [tasks EXCEPT ![t] = IdleTask]
    /\ UNCHANGED <<single, client, lastArrival>>

ConcNext ==
    \E t \in Tasks :
        \/ ConcCall(t)
        \/ ConcRespond(t)
        \/ ConcFailure(t)
        \/ ConcHandle(t)
        \/ ConcRead(t)
        \/ ConcFinish(t)

ConcSpec == Init /\ [][ConcNext]_vars

(***************************************************************************)
(* Properties.                                                             *)
(***************************************************************************)
\* an invocation of a get_* operation has handled the response it received
Answered == pc = "done" /\ op \in JsonOps /\ resp.json # "none"

\* C1: for every get_* operation and every response, the mapper is applied
\* and a success result produced if and only if the status is 200; for any
\* other status the outcome is a USPTOError whatever the body contains, and
\* the mapper is not applied.
C1_SuccessIffStatus200 ==
    Answered =>
        /\ (mapperApplied /\ outcome.kind = "return" /\ outcome.type = "record")
               <=> (resp.status = 200)
        /\ (resp.status # 200) => (outcome.type = "USPTOError" /\ ~mapperApplied)

\* the default message of a status, as the table is documented
DocumentedMessage(s) ==
    IF s = 400 THEN "Bad Request"
    ELSE IF s = 403 THEN "Forbidden"
    ELSE IF s = 404 THEN "Not Found"
    ELSE IF s = 500 THEN "Internal Server Error"
    ELSE "Unknown Error"

\* the error surfaced the way the implementation surfaces errors: raised by
\* the package client, returned by the flat one
SurfacedError ==
    /\ outcome.type = "USPTOError"
    /\ outcome.kind = (IF impl = "package" THEN "raise" ELSE "return")

\* C2: a non-200 response whose body cannot be decoded as JSON never fails
\* with a decoding error; the body counts as the empty mapping, so the
\* USPTOError has code = status, error = the default message of the status,
\* no detail and no request identifier, and it is the error that was logged.
C2_UndecodableErrorBody ==
    (Answered /\ resp.status # 200 /\ resp.json = "raises") =>
        /\ SurfacedError
        /\ outcome.value = [ code |-> JInt(resp.status),
                             error |-> JStr(DocumentedMessage(resp.status)),
                             error_details |-> None,
                             request_identifier |-> None ]
        /\ logged = <<outcome.value>>
        /\ decodes = 1

\* C2 happens: a 404 with an undecodable body became "404: Not Found"
C2_Witness ==
    /\ Answered /\ resp.status = 404 /\ resp.json = "raises"
    /\ outcome.type = "USPTOError"
    /\ outcome.value.code = JInt(404)
    /\ outcome.value.error = JStr("Not Found")

\* C3: for every status and every error body that is a mapping, the code is
\* the body's 'code' when the body has it and the status otherwise, and the
\* message is the body's 'error' when the body has it and otherwise the
\* default message of the status ("Unknown Error" outside the table).
C3_ErrorFieldsFromBodyElseDefaults ==
    (Answered /\ resp.status # 200 /\ resp.json = "object") =>
        /\ SurfacedError
        /\ outcome.value.code =
               (IF "code" \in DOMAIN resp.body THEN resp.body["code"]
                ELSE JInt(resp.status))
        /\ outcome.value.error =
               (IF "error" \in DOMAIN resp.body THEN resp.body["error"]
                ELSE JStr(DocumentedMessage(resp.status)))
        /\ outcome.value.request_identifier =
               (IF "requestIdentifier" \in DOMAIN resp.body
                THEN resp.body["requestIdentifier"] ELSE None)

\* C3 happens: a 403 whose body has a code but no message got "Forbidden"
C3_Witness ==
    /\ Answered /\ resp.status = 403 /\ resp.json = "object"
    /\ "code" \in DOMAIN resp.body /\ "error" \notin DOMAIN resp.body
    /\ outcome.type = "USPTOError"
    /\ outcome.value.code = JInt(4001)
    /\ outcome.value.error = JStr("Forbidden")

\* C4, as stated: the detail is the value of 'errorDetails' whenever the body
\* contains that key, the value of 'errorDetailed' only when 'errorDetails'
\* is not in the body, and absent when the body has neither.
C4_FirstSpellingWinsByPresence ==
    (Answered /\ resp.status # 200 /\ resp.json = "object") =>
        /\ outcome.type = "USPTOError"
        /\ outcome.value.error_details =
               (IF "errorDetails" \in DOMAIN resp.body THEN resp.body["errorDetails"]
                ELSE IF "errorDetailed" \in DOMAIN resp.body
                     THEN resp.body["errorDetailed"]
                ELSE None)

\* C4, amended: the detail is the value of 'errorDetails' when the body has
\* that key with a value that is neither null nor empty; in every other case
\* it is the value of 'errorDetailed', and absent when the body lacks that
\* key.
C4_FirstSpellingWinsByTruth ==
    (Answered /\ resp.status # 200 /\ resp.json = "object") =>
        /\ outcome.type = "USPTOError"
        /\ outcome.value.error_details =
               (IF /\ "errorDetails" \in DOMAIN resp.body
                   /\ resp.body["errorDetails"] \notin {None, JStr("")}
                THEN resp.body["errorDetails"]
                ELSE IF "errorDetailed" \in DOMAIN resp.body
                     THEN resp.body["errorDetailed"]
                ELSE None)

\* C4 happens: an empty 'errorDetails' gave way to the text of 'errorDetailed'
C4_Witness ==
    /\ Answered /\ resp.status # 200 /\ resp.json = "object"
    /\ "errorDetails" \in DOMAIN resp.body
    /\ resp.body["errorDetails"] = JStr("")
    /\ "errorDetailed" \in DOMAIN resp.body
    /\ outcome.type = "USPTOError"
    /\ outcome.value.error_details = JStr("second spelling")

\* an invocation has handled a response whose status is not 200 (the body
\* undecodable or a mapping)
Refused ==
    /\ pc = "done"
    /\ op \in JsonOps \cup {"download_document"}
    /\ resp.status \notin {0, 200}
    /\ resp.json # "nonobject"

\* C5: every operation, the download included, signals a non-200 response by
\* the one mechanism and error type the implementation uses: a USPTOError,
\* raised by every operation or returned by every operation.
C5_OnePropagationPolicy == Refused => SurfacedError

\* C6: a tree from which fields are missing, at any depth, is mapped without
\* an absence-signaling failure (KeyError), whichever mapper reads it.
C6_MissingFieldsNeverFail ==
    (Answered /\ resp.status = 200 /\ resp.json = "object") =>
        outcome.type # "KeyError"

\* the operations whose mappers read the date fields
DateOps == {"get_foreign_priority", "get_patent_transactions", "get_patent_assignments"}

\* C7: a date field that is missing, null or not a valid YYYY-MM-DD date maps
\* to 1900-01-01 and does not make the mapping fail (the date parser fails
\* with TypeError or ValueError).
C7_BadDatesBecomeSentinel ==
    (Answered /\ resp.status = 200 /\ resp.json = "object" /\ op \in DateOps) =>
        /\ outcome.type \notin {"TypeError", "ValueError"}
        /\ outcome.kind = "return"

CollectionOps == JsonOps \ {"get_patent_wrapper"}

\* the item sequence of the collection record v of operation o
Items(o, v) ==
    CASE o = "get_patent_documents" -> v.documents
      [] o = "get_patent_continuity" -> v.continuities
      [] o = "get_foreign_priority" -> v.priorities
      [] o = "get_patent_transactions" -> v.transactions
      [] o = "get_patent_assignments" -> v.assignments

\* v is the record of the empty document: every field it has at its default
IsEmptyDocument(o, v) ==
    IF o = "get_patent_wrapper"
    THEN /\ v.application_number = JStr("")
         /\ v.events = <<>>
         /\ v.metadata.filing_date = SentinelDate
    ELSE /\ Items(o, v) = <<>>
         /\ "count" \in DOMAIN v => v.count = JInt(0)
         /\ "request_identifier" \in DOMAIN v => v.request_identifier = None
         /\ DOMAIN v \subseteq {"count", "request_identifier", "documents",
                                "continuities", "priorities", "transactions",
                                "assignments"}

WellFormedCollection ==
    /\ Answered /\ resp.status = 200 /\ resp.json = "object"
    /\ op \in CollectionOps
    /\ {"count", BagKey(op)} \subseteq DOMAIN resp.body
    /\ resp.body[BagKey(op)] \in GoodBags(op)
    /\ resp.body["count"] = JInt(Len(resp.body[BagKey(op)]))

\* C9: mapping a well-formed collection body with count = N and N item trees
\* yields a result whose item sequence has length N, and whose count agrees
\* with that length.
C9_CountAgreesWithLength ==
    WellFormedCollection =>
        /\ outcome.kind = "return"
        /\ Len(Items(op, outcome.value)) = Len(resp.body[BagKey(op)])
        /\ "count" \in DOMAIN outcome.value
        /\ outcome.value.count = JInt(Len(Items(op, outcome.value)))

\* C10: every collection mapper yields the same shape by the same procedure:
\* 'count' (0 when absent), the bag item by item (empty when absent) and the
\* body's 'requestIdentifier' (absent when the body has none).
C10_OneCollectionShape ==
    (/\ Answered /\ resp.status = 200 /\ resp.json = "object"
     /\ op \in CollectionOps /\ outcome.type = "record") =>
        /\ {"count", "request_identifier"} \subseteq DOMAIN outcome.value
        /\ outcome.value.count = Get(resp.body, "count", JInt(0))
        /\ outcome.value.request_identifier = Get(resp.body, "requestIdentifier", None)
        /\ Len(Items(op, outcome.value)) = Len(Get(resp.body, BagKey(op), <<>>))

\* get_patent_wrapper answered a 200 whose bag holds one application tree
\* that has an application number
OneApplicationTree ==
    /\ Answered /\ op = "get_patent_wrapper"
    /\ resp.status = 200 /\ resp.json = "object"
    /\ "patentFileWrapperDataBag" \in DOMAIN resp.body
    /\ Len(resp.body["patentFileWrapperDataBag"]) = 1
    /\ "applicationNumberText" \in DOMAIN resp.body["patentFileWrapperDataBag"][1]

\* C11: for a 200 body whose bag holds one application tree, the wrapper
\* record carries the tree's applicationNumberText, and the firstInventorName
\* and inventionTitle of its applicationMetaData; the application number is
\* there whichever metadata fields are missing.
C11_WrapperCarriesApplicationFields ==
    OneApplicationTree =>
        LET tree == resp.body["patentFileWrapperDataBag"][1]
            meta == Get(tree, "applicationMetaData", EmptyMap)
        IN /\ outcome.kind = "return"
           /\ outcome.type = "record"
           /\ DOMAIN outcome.value = {"application_number", "metadata", "events"}
           /\ outcome.value.application_number = tree["applicationNumberText"]
           /\ "firstInventorName" \in DOMAIN meta =>
                  outcome.value.metadata.first_inventor_name = meta["firstInventorName"]
           /\ "inventionTitle" \in DOMAIN meta =>
                  outcome.value.metadata.invention_title = meta["inventionTitle"]

\* C11 happens: a tree without inventor name and without title was mapped,
\* the application number in place
C11_Witness ==
    /\ OneApplicationTree
    /\ "applicationMetaData" \in DOMAIN resp.body["patentFileWrapperDataBag"][1]
    /\ {"firstInventorName", "inventionTitle"} \cap
           DOMAIN resp.body["patentFileWrapperDataBag"][1]["applicationMetaData"] = {}
    /\ outcome.kind = "return"
    /\ outcome.value.application_number = JStr("12345678")
    /\ outcome.value.metadata.first_inventor_name = JStr("")

\* out is the list of the values F gives the items of bag, one for one and
\* in the order of bag
InOrder(out, bag, F(_)) ==
    /\ Len(out) = Len(bag)
    /\ \A i \in 1..Len(bag) : F(bag[i]).ok /\ out[i] = F(bag[i]).v

\* the bag under key k of tree t ([] when the key is missing)
Bag(t, k) == Get(t, k, <<>>)

TransactionsInOrder(out, bag) ==
    /\ InOrder(out, bag, ApplicationTransactions_from_dict)
    /\ \A i \in 1..Len(bag) :
           InOrder(out[i].events, Bag(bag[i], "eventDataBag"), TransactionEvent_from_dict)

PrioritiesInOrder(out, bag) ==
    /\ InOrder(out, bag, ForeignPriorityData_from_dict)
    /\ \A i \in 1..Len(bag) :
           InOrder(out[i].foreign_priorities, Bag(bag[i], "foreignPriorityBag"),
                   ForeignPriority_from_dict)

AssignmentsInOrder(out, bag) ==
    /\ InOrder(out, bag, ApplicationAssignment_from_dict)
    /\ \A i \in 1..Len(bag) :
           /\ InOrder(out[i].assignments, Bag(bag[i], "assignmentBag"),
                      Assignment_from_dict)
           /\ \A j \in 1..Len(Bag(bag[i], "assignmentBag")) :
                  /\ InOrder(out[i].assignments[j].assignors,
                             Bag(bag[i]["assignmentBag"][j], "assignorBag"),
                             Assignor_from_dict)
                  /\ InOrder(out[i].assignments[j].assignees,
                             Bag(bag[i]["assignmentBag"][j], "assigneeBag"),
                             Assignee_from_dict)

DocumentsInOrder(out, bag) ==
    /\ InOrder(out, bag, PatentDocument_from_dict)
    /\ \A i \in 1..Len(bag) :
           InOrder(out[i].download_options, Bag(bag[i], "downloadOptionBag"),
                   DownloadOption_from_dict)

\* a mapper under models/ returned the record of a 200 body
Mapped ==
    /\ Answered /\ resp.status = 200 /\ resp.json = "object"
    /\ outcome.type = "record"

\* C12: mapping keeps the order of every bag (events, per-application
\* records, assignors, assignees, download options): the mapped sequence has
\* as many elements as the bag and its i-th element is the mapping of the
\* i-th item; nothing is re-sorted, dropped or duplicated.
C12_OrderPreserved ==
    Mapped =>
        CASE op = "get_patent_transactions" ->
                 TransactionsInOrder(outcome.value.transactions,
                                     Bag(resp.body, "patentFileWrapperDataBag"))
          [] op = "get_foreign_priority" ->
                 PrioritiesInOrder(outcome.value.priorities,
                                   Bag(resp.body, "patentFileWrapperDataBag"))
          [] op = "get_patent_assignments" ->
                 AssignmentsInOrder(outcome.value.assignments,
                                    Bag(resp.body, "patentFileWrapperDataBag"))
          [] op = "get_patent_documents" ->
                 DocumentsInOrder(outcome.value.documents, Bag(resp.body, "documentBag"))
          [] OTHER -> TRUE

\* C12 happens: the events MM327, EML_NTR came out in that order, and so did
\* two application records
C12_Witness ==
    /\ Mapped /\ op = "get_patent_transactions"
    /\ Len(outcome.value.transactions) = 2
    /\ outcome.value.transactions[2].events = <<>>
    /\ Len(outcome.value.transactions[1].events) = 2
    /\ outcome.value.transactions[1].events[1].event_code = JStr("MM327")
    /\ outcome.value.transactions[1].events[2].event_code = JStr("EML_NTR")

\* the three spellings of patent number 11989999
Spellings11989999 ==
    { <<"U", "S", "1", "1", ",", "9", "8", "9", ",", "9", "9", "9">>,
      <<"1", "1", ",", "9", "8", "9", ",", "9", "9", "9">>,
      <<"1", "1", "9", "8", "9", "9", "9", "9">> }

\* the lookup answered a 200 whose first record has an application number
LookupAnswered ==
    /\ pc = "done" /\ op = LookupOp
    /\ resp.status = 200 /\ resp.json = "object"
    /\ "patentFileWrapperDataBag" \in DOMAIN resp.body
    /\ resp.body["patentFileWrapperDataBag"] # <<>>
    /\ "applicationNumberText" \in DOMAIN resp.body["patentFileWrapperDataBag"][1]

\* C13: the lookup sanitizes the patent number to its digits (a leading "US"
\* and the commas go; "US11,989,999", "11,989,999" and "11989999" all give
\* "11989999"; sanitizing the result again changes nothing), issues exactly
\* one POST whose payload is {"filters": {"applicationMetaData.patentNumber":
\* <sanitized number>}}, and returns the application number of the first
\* returned record.
C13_LookupBySanitizedNumber ==
    (op = LookupOp) =>
        /\ Len(payloads) = 1
        /\ requests = <<SearchUrl>>
        /\ DOMAIN payloads[1] = {"filters"}
        /\ DOMAIN payloads[1].filters = {"applicationMetaData.patentNumber"}
        /\ LET sent == payloads[1].filters["applicationMetaData.patentNumber"]
           IN /\ sent = JStr(SelectSeq(arguments.patent_number, IsDigit))
              /\ arguments.patent_number \in Spellings11989999 =>
                     sent.s = <<"1", "1", "9", "8", "9", "9", "9", "9">>
              /\ sanitize_patent_number(sent.s) = sent.s
        /\ LookupAnswered =>
               outcome = Returned("str",
                   resp.body["patentFileWrapperDataBag"][1]["applicationNumberText"])

\* C13 happens: "US11,989,999" was looked up as "11989999" and the number of
\* the first of two returned records came back
C13_Witness ==
    /\ LookupAnswered
    /\ arguments.patent_number =
           <<"U", "S", "1", "1", ",", "9", "8", "9", ",", "9", "9", "9">>
    /\ payloads = << [ filters |-> [ k \in {"applicationMetaData.patentNumber"} |->
                           JStr(<<"1", "1", "9", "8", "9", "9", "9", "9">>) ] ] >>
    /\ Len(resp.body["patentFileWrapperDataBag"]) = 2
    /\ outcome.kind = "return"
    /\ outcome.value = JStr("18085747")

\* download_document is being, or has been, executed
Downloading == op = "download_document"

\* C14: with a save path that does not exist, or is not writable,
\* download_document fails with FileNotFoundError, respectively
\* PermissionError, and no HTTP request is ever issued: the invocation is
\* over at once, with no request, no response scope and no file.
C14_DestinationCheckedBeforeNetwork ==
    (Downloading /\ arguments.save_path \in {"/data/missing", "/data/readonly"}) =>
        /\ pc = "done"
        /\ requests = <<>>
        /\ connection = "none"
        /\ file = NoFile
        /\ outcome.kind = "raise"
        /\ outcome.type = (IF arguments.save_path = "/data/missing"
                           THEN "FileNotFoundError" ELSE "PermissionError")

\* C14 happens: a download of an available format to a directory that is not
\* writable ended with PermissionError
C14_Witness ==
    /\ Downloading /\ pc = "done"
    /\ arguments.save_path = "/data/readonly"
    /\ arguments.mime_type = "XML"
    /\ outcome.type = "PermissionError"
    /\ requests = <<>>

\* the mime types of the options of the document to download, in order
OptionTypes ==
    [ i \in 1..Len(arguments.document.download_options) |->
        arguments.document.download_options[i].mime_type.s ]

\* the save path is usable and no option of the document has the requested
\* mime type
FormatUnavailable ==
    /\ Downloading /\ arguments.save_path = "/data/out"
    /\ \A i \in 1..Len(OptionTypes) : OptionTypes[i] # arguments.mime_type

DownloadRefused ==
    /\ Downloading /\ pc \in {"reading", "done"}
    /\ resp.status \notin {0, 200}

\* C16: when the download request returns a status other than 200,
\* download_document fails with a download-failed condition that carries the
\* status, returns no path and leaves no file.
C16_DownloadFailedCarriesStatus ==
    DownloadRefused =>
        /\ pc = "done"
        /\ outcome.kind = "raise"
        /\ outcome.type = "Exception"
        /\ outcome.value = JInt(resp.status)
        /\ file = NoFile

\* C16 happens: a download answered 404 failed with that status
C16_Witness ==
    /\ DownloadRefused
    /\ resp.status = 404
    /\ outcome = Raised("Exception", JInt(404))

\* C17: when download_document has ended, by normal completion, by a read
\* error in the middle of the stream or by a write error after some chunks
\* were written, neither the file handle nor the response stream is open.
C17_ReleasedOnEveryExit ==
    (pc \in {"done", "idle"}) => (file.state # "open" /\ connection # "open")

\* C17 happens: a write failed after a chunk had been written, and file and
\* response are closed
C17_Witness ==
    /\ Downloading /\ pc = "done"
    /\ outcome.type = "OSError"
    /\ Len(file.writes) >= 1
    /\ file.state = "closed"
    /\ connection = "released"

\* the chunks read so far, the empty one that ends the loop left out
NonEmptyChunks == SelectSeq(chunks, LAMBDA n : n > 0)

\* how the chunks read and the chunks written stand to each other
ChunkedStreaming ==
    Downloading =>
        /\ \A i \in 1..Len(chunks) : chunks[i] <= 8192
        /\ \A i \in 1..(Len(chunks) - 1) : chunks[i] > 0
        /\ Len(NonEmptyChunks) - Len(file.writes) \in {0, 1}
        /\ file.writes = SubSeq(NonEmptyChunks, 1, Len(file.writes))
        /\ (pc = "reading") => (file.writes = chunks)
        /\ (outcome.kind = "return") =>
               /\ chunks # <<>>
               /\ chunks[Len(chunks)] = 0
               /\ file.writes = SubSeq(chunks, 1, Len(chunks) - 1)
               /\ stream = <<>>
               /\ file.state = "closed"

\* C18: the body is streamed in chunks of at most 8192 bytes, each chunk
\* written before the next is read (at most one chunk is ever held
\* unwritten), the loop ends at the first empty chunk, and for a finite body
\* the download terminates, the file holding exactly the chunks read, in
\* order.
C18_StreamsInChunks ==
    /\ []ChunkedStreaming
    /\ (pc = "reading") ~> (pc = "done")

\* C18 happens: a body of 8193 bytes was read as 8192, 1 and the empty chunk,
\* and written as 8192 and 1
C18_Witness ==
    /\ Downloading /\ pc = "done" /\ outcome.kind = "return"
    /\ chunks = <<8192, 1, 0>>
    /\ file.writes = <<8192, 1>>

\* the filename download_document is documented to write to: the one
\* supplied, else "<application number>_<document code>_<document
\* identifier><ext>"
DocumentedFilename ==
    IF arguments.filename \notin {None, JStr("")} THEN arguments.filename.s
    ELSE arguments.document.application_number.s \o "_"
         \o arguments.document.document_code.s \o "_"
         \o arguments.document.document_identifier.s
         \o (IF arguments.mime_type = "PDF" THEN ".pdf"
             ELSE IF arguments.mime_type = "MS_WORD" THEN ".doc" ELSE ".xml")

\* C19: without an explicit filename download_document synthesizes
\* "<application number>_<document code>_<document identifier><ext>", ext
\* being .pdf for PDF, .doc for MS_WORD and .xml for every other type; the
\* file it writes, and on success the value it returns, is the save
\* directory joined with the supplied or synthesized filename.
C19_FilenameAndReturnedPath ==
    (Downloading /\ file # NoFile) =>
        /\ file.path = arguments.save_path \o "/" \o DocumentedFilename
        /\ (pc = "done" /\ outcome.kind = "return") =>
               outcome = Returned("str", JStr(file.path))

\* C19 happens: a Word download without filename returned the synthesized
\* path
C19_Witness ==
    /\ Downloading /\ pc = "done"
    /\ arguments.filename = None
    /\ arguments.mime_type = "MS_WORD"
    /\ outcome = Returned("str", JStr("/data/out/12345678_CTNF_LDXBTPQ7XBLUEX3.doc"))
    /\ file.path = "/data/out/12345678_CTNF_LDXBTPQ7XBLUEX3.doc"
    /\ file.state = "closed"

\* download_document was refused by its own checks of the arguments, before
\* any request
RefusedBeforeRequest ==
    /\ Downloading /\ pc = "done"
    /\ outcome.kind = "raise"
    /\ outcome.type \in {"FileNotFoundError", "PermissionError", "ValueError"}

\* C20 as stated: every invocation of a public operation ends having issued
\* exactly one HTTP request and decoded the body at most once.
C20_ExactlyOneRequest ==
    pc = "done" => (Len(requests) = 1 /\ decodes <= 1)

\* C20: an invocation never issues more than one HTTP request nor decodes
\* the body more than once, whatever happens (non-200 response, undecodable
\* body, transport failure); it ends having issued exactly one request
\* unless download_document was refused by its checks of the arguments, in
\* which case it issued none.
C20_AtMostOneRequestNoRetry ==
    /\ Len(requests) <= 1
    /\ decodes <= 1
    /\ pc = "done" =>
           Len(requests) = (IF RefusedBeforeRequest THEN 0 ELSE 1)
    /\ pc \in {"awaiting", "responded", "reading"} => Len(requests) = 1

\* C20 happens: an invocation that met a 500 response with an undecodable
\* body ended with the error, after one request and one decoding
C20_Witness ==
    /\ pc = "done" /\ op = "get_patent_wrapper"
    /\ resp.status = 500 /\ resp.json = "raises"
    /\ outcome.type = "USPTOError"
    /\ requests = <<url("get_patent_wrapper")>>
    /\ decodes = 1

\* C22: download_document creates or opens the destination file only after
\* the three checks of the arguments have passed and the download response
\* has status 200: an execution that fails with a missing directory, a
\* directory that is not writable, an unavailable mime type or a non-200
\* status never touches the file (a file already at that path is not
\* truncated).
C22_FileTouchedOnlyAfterChecksAnd200 ==
    Downloading =>
        /\ file # NoFile =>
               /\ arguments.save_path = "/data/out"
               /\ \E i \in 1..Len(OptionTypes) : OptionTypes[i] = arguments.mime_type
               /\ resp.status = 200
        /\ (pc = "done" /\ file = NoFile) => outcome.kind = "raise"
        /\ (pc = "done" /\ outcome.kind = "raise"
            /\ outcome.type \in {"FileNotFoundError", "PermissionError",
                                 "ValueError", "Exception"}) => file = NoFile

\* C22 happens: a download with explicit filename met status 503 and ended
\* without the file having been touched
C22_Witness ==
    /\ Downloading /\ pc = "done"
    /\ arguments.filename = JStr("custom.bin")
    /\ arguments.save_path = "/data/out"
    /\ resp.status = 503
    /\ outcome.kind = "raise"
    /\ file = NoFile

\* the conditions of the arguments that make download_document fail, in the
\* documented order of precedence
DirectoryMissing == arguments.save_path = "/data/missing"

DirectoryNotWritable == arguments.save_path \in {"/data/missing", "/data/readonly"}

MimeTypeUnavailable == \A i \in 1..Len(OptionTypes) : OptionTypes[i] # arguments.mime_type

\* C23: the failures of the arguments of download_document have a fixed
\* precedence: missing directory, then directory not writable, then mime type
\* unavailable; when several hold at once the earliest is the one reported,
\* exactly one condition is reported per call, and none when none holds.
C23_EarliestPreconditionReported ==
    (Downloading /\ pc = "done") =>
        LET reported == IF outcome.kind = "raise" /\ outcome.type \in
                             {"FileNotFoundError", "PermissionError", "ValueError"}
                        THEN outcome.type ELSE "none"
        IN reported = (IF DirectoryMissing THEN "FileNotFoundError"
                       ELSE IF DirectoryNotWritable THEN "PermissionError"
                       ELSE IF MimeTypeUnavailable THEN "ValueError"
                       ELSE "none")

\* C23 happens: a call with a missing directory and a mime type the document
\* does not offer ended with FileNotFoundError
C23_Witness ==
    /\ Downloading /\ pc = "done"
    /\ DirectoryMissing /\ DirectoryNotWritable /\ MimeTypeUnavailable
    /\ arguments.document.download_options = <<>>
    /\ outcome = Raised("FileNotFoundError", JStr("/data/missing"))

\* the outcomes invocation t has when it runs alone with its arguments and
\* the response to its own request
AloneOutcomes(t) ==
    LET k == tasks[t]
    IN IF k.op = "download_document" /\ ~preconditions(k.arguments).ok
       THEN { Raised(preconditions(k.arguments).exc, preconditions(k.arguments).detail) }
       ELSE IF k.resp = NoResponse
       THEN { Raised("ClientError", None) }
       ELSE IF k.op \in JsonOps
       THEN { handle_response(impl, k.op, k.resp).outcome }
       ELSE IF k.resp.status # 200
       THEN { Raised("Exception", JInt(k.resp.status)) }
       ELSE { Returned("str", JStr(full_path(k.arguments))),
              Raised("ClientError", None) }

\* C21: concurrent invocations on one client share no mutable state but the
\* session: however they interleave where they await the network, the
\* outcome of each is the one it has alone on the response to its own
\* request, and the API key, the headers and the session reference of the
\* client are never modified.
C21_OutcomeAsIfAlone ==
    /\ client = InitialClient
    /\ \A t \in Tasks :
          tasks[t].pc = "done" => tasks[t].outcome \in AloneOutcomes(t)

\* C21 happens: both invocations called get_patent_transactions, the response
\* of the second (404) arrived after that of the first (200) and before the
\* first resumed, and each ended with the outcome of its own response
C21_Witness ==
    /\ tasks[1].pc = "done" /\ tasks[2].pc = "done"
    /\ tasks[1].op = "get_patent_transactions"
    /\ tasks[2].op = "get_patent_transactions"
    /\ lastArrival = 2
    /\ tasks[1].resp.status = 200 /\ tasks[1].outcome.kind = "return"
    /\ tasks[1].outcome.type # "USPTOError"
    /\ tasks[2].resp.status = 404 /\ tasks[2].outcome.type = "USPTOError"
    /\ client = InitialClient

====
